---- MODULE Spec2Model ----
(***************************************************************************)
(* experience-bench: the trial execution engine.                           *)
(*                                                                         *)
(*   core/run.py        run_benchmark: warmup phase, measured phase,       *)
(*                      _run_warmup_trial, _run_measured_trial,            *)
(*                      _write_artifacts                                   *)
(*   core/storage.py    append_jsonl                                       *)
(*   adapters/retry.py  post_with_429_retries                              *)
(*                                                                         *)
(*   core/prompts.py    render_prompt                                      *)
(*   core/code_exec.py, eval.py, code_extract.py, model_spec.py            *)
(*   adapters/*.py      complete() of the openrouter, ollama and           *)
(*                      azureopenai adapters                               *)
(*                                                                         *)
(* Spec         one run of run_benchmark, from its call                    *)
(* SpecRetry    one call of post_with_429_retries                          *)
(* SpecAdapter  one call of complete() of one of the three adapters        *)
(* SpecPrompt   one task body up to its adapter.complete call              *)
(* SpecCalls    one call of run_python_code, eval_two_line_stdout,         *)
(*              extract_first_code_block, _safe_path_component,            *)
(*              parse_model_spec or _retry_after_seconds, or a series of   *)
(*              append_jsonl calls on one file                             *)
(***************************************************************************)
EXTENDS Integers, Sequences, FiniteSets, TLC

VARIABLES
    \* ---- run_benchmark (core/run.py) ----
    concurrency,        \* pool size, >= 1 after validation
    models,             \* configured model list, in configured order
    model_text,         \* position in models -> the text of that entry
    api_key,            \* the environment holds the key of the models' provider
    years,              \* configured experience-years list, in configured order
    runs_per_setting,   \* measured calls per (model, years)
    warmup,             \* warmup calls per (model, years)
    phase,              \* position of the coordinating thread in run_benchmark
    wfut,               \* warmup task -> state of its call / future
    trial,              \* measured task -> state of its body / future
    records,            \* the records list
    pbar,               \* progress counter (pbar.update calls)
    artifacts,          \* measured task -> completed _write_artifacts calls
    jsonl,              \* lines of the JSONL result file
    faults,             \* stage failures that have happened in this run
    \* ---- post_with_429_retries (adapters/retry.py) ----
    max_attempts,       \* EXPERIENCE_BENCH_RETRY_429_MAX_ATTEMPTS
    base_delay_s,       \* EXPERIENCE_BENCH_RETRY_429_BASE_DELAY_S (ms)
    max_delay_s,        \* EXPERIENCE_BENCH_RETRY_429_MAX_DELAY_S (ms)
    attempt,            \* 429 responses seen so far
    rpc,                \* position in the retry loop
    r,                  \* last response
    posts,              \* client.post calls issued
    sleeps,             \* time.sleep calls made
    retry_after,        \* delay before jitter of the last sleep (ms)
    jitter,             \* jitter of the last sleep (ms)
    returned,           \* what the caller received
    \* ---- Adapter.complete (adapters/openrouter.py, ollama.py, azureopenai.py) ----
    adapter,            \* the adapter variant whose complete() runs
    unset,              \* required values absent from the adapter's configuration
    outcome,            \* how complete() ended: "returned" or "raised"
    \* ---- one task's prompt (core/prompts.py, run.py 80-119) ----
    template,           \* the prompt template file, as a list of fields
    statement,          \* the problem statement
    input_payload,      \* the puzzle input
    ptask,              \* the task: its phase and its years value
    ppc,                \* position in the task body
    pr,                 \* what render_prompt gave
    sent,               \* the (system, user) texts passed to adapter.complete
    \* ---- one call of a function of the trial pipeline ----
    call,               \* the function that is called
    arg,                \* its arguments
    ret,                \* what it returned, once it is over
    fdone               \* the call is over

runVars == <<concurrency, models, model_text, api_key, years, runs_per_setting,
             warmup, phase, wfut, trial, records, pbar, artifacts, jsonl, faults>>
retryVars == <<max_attempts, base_delay_s, max_delay_s, attempt, rpc, r, posts,
               sleeps, retry_after, jitter, returned>>
adapterVars == <<adapter, unset, outcome>>
promptVars == <<template, statement, input_payload, ptask, ppc, pr, sent>>
fnVars == <<call, arg, ret, fdone>>
vars == <<runVars, retryVars, adapterVars, promptVars, fnVars>>

(***************************************************************************)
(* Bounds of the explored inputs.                                          *)
(*   MaxTotalSteps  tasks of a run (warmup + measured) at concurrency 1    *)
(*   MaxPoolSteps   tasks of a run at concurrency > 1                      *)
(*   MaxWork        tasks plus stage failures of a run                     *)
(*   MaxTemplateLen fields (literal text, {name}) of a prompt template     *)
(***************************************************************************)
MaxModels == 2
MaxYears == 2
MaxRuns == 3
MaxWarmup == 2
MaxConcurrency == 2
MaxTotalSteps == 4
MaxPoolSteps == 3
MaxAttempts == 3
MaxWork == 5
MaxTemplateLen == 3
MaxStdoutLen == 5
MaxTextLen == 5
MaxPathLen == 4
MaxSpecLen == 5
MaxHeaderLen == 3
MaxAppendRuns == 3
MaxKeyLen == 2

None == "None"

Max(a, b) == IF a >= b THEN a ELSE b
Min(a, b) == IF a <= b THEN a ELSE b

(***************************************************************************)
(* Strings are sequences of characters (or of longer pieces of text).      *)
(***************************************************************************)
RECURSIVE SeqsOfLen(_, _)
SeqsOfLen(S, n) ==
    IF n = 0 THEN {<<>>}
    ELSE {Append(s, x) : s \in SeqsOfLen(S, n - 1), x \in S}

\* the strings over S of length up to n
SeqsUpTo(S, n) == UNION {SeqsOfLen(S, k) : k \in 0..n}

\* str.lstrip / str.rstrip / str.strip for the characters of ws
RECURSIVE LStrip(_, _)
LStrip(s, ws) ==
    IF Len(s) > 0 /\ Head(s) \in ws THEN LStrip(Tail(s), ws) ELSE s

RECURSIVE RStrip(_, _)
RStrip(s, ws) ==
    IF Len(s) > 0 /\ s[Len(s)] \in ws
    THEN RStrip(SubSeq(s, 1, Len(s) - 1), ws) ELSE s

Strip(s, ws) == RStrip(LStrip(s, ws), ws)

\* a function call that raised exc, and one that returned res
CallRaised(exc) == [exc |-> exc, res |-> <<>>]
CallReturned(res) == [exc |-> "none", res |-> <<res>>]

(***************************************************************************)
(* Task lists: run.py builds both with the same nested loops               *)
(* (models, then years, then the repetition index).                        *)
(***************************************************************************)
\* range(n) of the innermost loop, positions 0..n-1
PerSetting(n) == Max(0, n)

\* number of entries of a task list with n repetitions per (model, years)
NumTasks(n) == Len(models) * Len(years) * PerSetting(n)

\* the k-th entry (1-based) of the list built by
\*   for model in models: for y in years: for i in range(n): append((ms, y, i))
TaskAt(k, n) ==
    LET per == PerSetting(n)
        z   == k - 1
    IN  [ms  |-> models[(z \div (per * Len(years))) + 1],
         y   |-> years[((z \div per) % Len(years)) + 1],
         i   |-> z % per]

WarmupTasks == 1..NumTasks(warmup)
Tasks == 1..NumTasks(runs_per_setting)

\* total_steps of the progress bar
TotalSteps == Len(models) * Len(years) * (Max(0, warmup) + runs_per_setting)

(***************************************************************************)
(* TrialRecord (core/records.py): the fields the scheduler decides.        *)
(***************************************************************************)
TrialRecord(task, status, error_type) ==
    [model |-> task.ms, years |-> task.y, run_index |-> task.i,
     status |-> status, error_type |-> error_type]

\* the locals of _run_measured_trial before the provider call
\*   pr   : render_prompt returned
\*   resp : resp_text is set (adapter.complete returned)
\*   code : extract_first_code_block found a block
\*   exec : the outcome of run_python_code
\*   ev   : the outcome of eval_two_line_stdout
\*   rec  : the record built so far
FreshLocals(pc) ==
    [pc |-> pc, pr |-> FALSE, resp |-> FALSE, code |-> FALSE, exec |-> None, ev |-> None,
     rec |-> None]

Pending == FreshLocals("pending")
Collected == FreshLocals("collected")

\* the body is over and its locals are gone: the call (or the future) holds
\* the returned record, or the exception
Returned(rec) == [FreshLocals("returned") EXCEPT !.rec = rec]
Raised == FreshLocals("raised")

\* a future (or, sequentially, the call) that has finished
Finished(pc) == pc \in {"returned", "raised"}
\* a task body that is executing
Executing(pc) == pc \in {"complete", "exec", "write", "write_exc"}

\* a warmup call the loop is done with: its result was discarded or its
\* exception swallowed
WarmupCollected(st) == st \in {"discarded", "swallowed"}

\* task bodies executing right now, warmup and measured
RunningWarmup == {t \in WarmupTasks : wfut[t] = "complete"}
RunningMeasured == {t \in Tasks : Executing(trial[t].pc)}
Running == Cardinality(RunningWarmup) + Cardinality(RunningMeasured)

(***************************************************************************)
(* Scheduling of task bodies.                                              *)
(***************************************************************************)
\* (mutation) a pool that starts a thread for every queued call
PoolHasIdleWorker_Unbounded == TRUE

\* ThreadPoolExecutor(max_workers=concurrency): a worker is free to take the
\* next queued call
PoolHasIdleWorker == Running < concurrency

\* (mutation) the next body is called without waiting for the previous one
SequentialTurn_NoWait(t, collected) == concurrency = 1

\* concurrency == 1: the for loop calls the next body only after the previous
\* iteration (call, append, pbar.update) is over
SequentialTurn(t, collected) ==
    /\ concurrency = 1
    /\ \A u \in 1..(t - 1) : collected[u]

\* concurrency > 1: the executor's work queue is FIFO
PoolTurn(t, pending) ==
    /\ concurrency > 1
    /\ \A u \in 1..(t - 1) : ~pending[u]
    /\ PoolHasIdleWorker

MayStart(t, pending, collected) ==
    \/ SequentialTurn(t, collected)
    \/ PoolTurn(t, pending)

\* the failures explored in one run: tasks plus failures stay within MaxWork
FaultBudget == MaxWork - TotalSteps

\* a stage ends: with a failure (an exception, an error result, an unusable
\* model output), as long as the run's failures stay within the budget, or well
Stage(failed) ==
    IF failed THEN faults < FaultBudget /\ faults' = faults + 1
              ELSE UNCHANGED faults

(***************************************************************************)
(* Start-up of run_benchmark (run.py 41-78, 322-327).                      *)
(***************************************************************************)
\* A model text is a string of pieces: a provider name in some letter case,
\* another word, a colon, a blank, a model name in some letter case.
\* The entries of the model list: well-formed, without a colon, with an
\* unknown provider, with a blank model.
ModelTexts ==
    {<<"OpenRouter", ":", "m">>, <<"m">>, <<"bogus", ":", "m">>,
     <<"openrouter", ":", " ">>}

\* (mutation) the provider is compared as it is written
Lower_AsWritten(s) == s

\* str.lower()
Lower(s) ==
    [i \in 1..Len(s) |->
        CASE s[i] = "OpenRouter" -> "openrouter"
          [] s[i] = "M" -> "m"
          [] OTHER -> s[i]]

\* parse_model_spec (model_spec.py 22-34): <<>> for ValueError, or <<ModelSpec>>
\* with its two properties model_spec and model_key (model_spec.py 6-19)
parse_model_spec(text) ==
    LET colons   == {i \in 1..Len(text) : text[i] = ":"}
        first    == CHOOSE i \in colons : \A j \in colons : i <= j
        provider == Lower(Strip(SubSeq(text, 1, first - 1), {" "}))
        model    == Strip(SubSeq(text, first + 1, Len(text)), {" "})
    IN  IF colons = {} THEN <<>>
        ELSE IF provider \notin {<<"openrouter">>, <<"ollama">>, <<"azureopenai">>}
        THEN <<>>
        ELSE IF Len(model) = 0 THEN <<>>
        ELSE <<[provider |-> provider, model |-> model,
                model_spec |-> provider \o <<":">> \o model,
                model_key |-> provider \o <<":">> \o model]>>

\* (mutation) the entries are parsed when their tasks start: only the first
\* one before the first task
ParsedAtStartUp_FirstOnly == 1..Min(1, Len(models))

\* run.py 323-324: the loop that builds warmup_tasks parses every entry of
\* models before the first warmup call
ParsedAtStartUp == 1..Len(models)

\* run.py 41-57 and 322-327: the checks before the first task; a ValueError
\* leaves run_benchmark
StartUp ==
    /\ phase = "startup"
    /\ phase' =
         IF concurrency < 1 THEN "rejected"
         ELSE IF Len(models) = 0 THEN "rejected"
         ELSE IF \E k \in ParsedAtStartUp : parse_model_spec(model_text[k]) = <<>>
              THEN "rejected"
         ELSE "warmup"
    /\ UNCHANGED <<concurrency, models, model_text, api_key, years,
                   runs_per_setting, warmup, wfut, trial, records, pbar,
                   artifacts, jsonl, faults, retryVars, adapterVars, promptVars, fnVars>>

(***************************************************************************)
(* Warmup phase (run.py 321-348).                                          *)
(***************************************************************************)
\* _run_warmup_trial starts: render_prompt, then adapter.complete is entered;
\* render_prompt may raise
StartWarmup(t) ==
    /\ phase = "warmup"
    /\ wfut[t] = "pending"
    /\ MayStart(t, [u \in WarmupTasks |-> wfut[u] = "pending"],
                   [u \in WarmupTasks |-> WarmupCollected(wfut[u])])
    /\ \E render_ok \in BOOLEAN :
          /\ Stage(~render_ok)
          /\ wfut' = [wfut EXCEPT ![t] = IF render_ok THEN "complete" ELSE "raised"]
    /\ UNCHANGED <<concurrency, models, model_text, api_key, years,
                   runs_per_setting, warmup, phase,
                   trial, records, pbar, artifacts, jsonl, retryVars, adapterVars, promptVars, fnVars>>

\* adapter.complete may return only if the adapter has its key: without it
\* complete() raises at once (openrouter.py 29-30)
CompleteOutcomes == IF api_key THEN BOOLEAN ELSE {FALSE}

\* adapter.complete returns (result discarded) or raises
WarmupComplete(t) ==
    /\ wfut[t] = "complete"
    /\ \E ok \in CompleteOutcomes :
          /\ Stage(~ok /\ api_key)
          /\ wfut' = [wfut EXCEPT ![t] = IF ok THEN "returned" ELSE "raised"]
    /\ UNCHANGED <<concurrency, models, model_text, api_key, years,
                   runs_per_setting, warmup, phase,
                   trial, records, pbar, artifacts, jsonl, retryVars, adapterVars, promptVars, fnVars>>

\* (mutation) a warmup call whose outcome is kept
WarmupRecords_Kept(t) ==
    Append(records, [model |-> TaskAt(t, warmup).ms, years |-> TaskAt(t, warmup).y,
                     run_index |-> TaskAt(t, warmup).i, status |-> "ok",
                     error_type |-> None])

\* what a warmup call leaves in the records list: nothing
WarmupRecords(t) == records

\* try: call / fut.result()  except Exception: pass  finally: pbar.update(1)
CollectWarmup(t) ==
    /\ phase = "warmup"
    /\ Finished(wfut[t])
    /\ wfut' = [wfut EXCEPT ![t] = IF @ = "raised" THEN "swallowed" ELSE "discarded"]
    /\ records' = WarmupRecords(t)
    /\ pbar' = pbar + 1
    /\ UNCHANGED <<concurrency, models, model_text, api_key, years,
                   runs_per_setting, warmup, phase,
                   trial, artifacts, jsonl, faults, retryVars, adapterVars, promptVars, fnVars>>

\* (mutation) the warmup phase is left without waiting for its calls
WarmupPhaseOver_NoWait == TRUE

\* the sequential loop is exhausted, or the with-block of the pool is left
\* (as_completed has yielded every future, shutdown(wait=True))
WarmupPhaseOver == \A t \in WarmupTasks : WarmupCollected(wfut[t])

LeaveWarmup ==
    /\ phase = "warmup"
    /\ WarmupPhaseOver
    /\ phase' = "measured"
    /\ UNCHANGED <<concurrency, models, model_text, api_key, years,
                   runs_per_setting, warmup, wfut,
                   trial, records, pbar, artifacts, jsonl, faults, retryVars, adapterVars, promptVars, fnVars>>

(***************************************************************************)
(* _run_measured_trial (run.py 96-318).                                    *)
(***************************************************************************)
\* eval_two_line_stdout on the stdout of a run that exited 0, by the number of
\* non-empty lines and whether the first two equal the expected answers
EvalOutcomes == {"pass", "mismatch", "short"}

\* status / error_type of the record built after evaluation (run.py 227-229)
EvalStatus(ev) == IF ev = "pass" THEN "ok" ELSE "error"
EvalErrorType(ev) == IF ev = "short" THEN "output_parse_error" ELSE None

\* the record of the except handler (run.py 274-303)
HandlerRecord(t) ==
    TrialRecord(TaskAt(t, runs_per_setting), "error", "provider_error")

\* the stages that ran between t0 = time.perf_counter() (run.py 104) and the
\* t1 of the ttlt_ms of a record, from the locals l of the body when the
\* record is built: in the try t1 is taken when adapter.complete returned
\* (run.py 120-121), in the except handler when the handler is entered
\* (run.py 275-276), after whatever the try had reached
TtltStages(l, in_handler) ==
    IF ~in_handler THEN {"complete"}
    ELSE {"complete"}
         \cup (IF l.resp THEN {"extract"} ELSE {})
         \cup (IF l.code THEN {"sandbox"} ELSE {})
         \cup (IF l.ev # None THEN {"evaluate"} ELSE {})
         \cup (IF l.pc = "write" THEN {"write"} ELSE {})

\* what a record built from the locals l keeps of the CompletionResult resp:
\* the records of the try take the three fields from resp (run.py 148-150,
\* 200-202, 253-255); the except handler sets raw_usage=None and
\* usage_derived=None and takes the length from resp_text, which is set once
\* complete() has returned (run.py 122, 299-301)
ResultFields(l, in_handler) ==
    IF ~in_handler
    THEN [raw_usage |-> "resp.raw_usage", usage_derived |-> "resp.usage_derived",
          response_text_len |-> "len(resp.text)"]
    ELSE [raw_usage |-> None, usage_derived |-> None,
          response_text_len |-> IF l.resp THEN "len(resp.text)" ELSE None]

\* render_prompt (outside the try), then adapter.complete is entered;
\* an exception of render_prompt leaves the body
StartMeasured(t) ==
    /\ phase = "measured"
    /\ trial[t].pc = "pending"
    /\ MayStart(t, [u \in Tasks |-> trial[u].pc = "pending"],
                   [u \in Tasks |-> trial[u].pc = "collected"])
    /\ \E render_ok \in BOOLEAN :
          /\ Stage(~render_ok)
          /\ trial' = [trial EXCEPT ![t] =
              IF render_ok THEN [@ EXCEPT !.pc = "complete", !.pr = TRUE] ELSE Raised]
    /\ UNCHANGED <<concurrency, models, model_text, api_key, years,
                   runs_per_setting, warmup, phase,
                   wfut, records, pbar, artifacts, jsonl, retryVars, adapterVars, promptVars, fnVars>>

\* adapter.complete returns or raises; on return extract_first_code_block:
\*   raised        -> except handler
\*   no code block -> parse_error record, _write_artifacts next
\*   code block    -> run_python_code is entered
ProviderCall(t) ==
    /\ trial[t].pc = "complete"
    /\ \E out \in {"raised"} \cup
                   (IF TRUE \in CompleteOutcomes THEN {"no_block", "block"} ELSE {}) :
        /\ Stage(out # "block" /\ api_key)
        /\ trial' = [trial EXCEPT ![t] =
              CASE out = "raised" ->
                     [@ EXCEPT !.pc = "write_exc", !.rec = HandlerRecord(t)]
                [] out = "no_block" ->
                     [@ EXCEPT !.pc = "write", !.resp = TRUE,
                               !.rec = TrialRecord(TaskAt(t, runs_per_setting),
                                                   "error", "parse_error")]
                [] out = "block" ->
                     [@ EXCEPT !.pc = "exec", !.resp = TRUE, !.code = TRUE]]
    /\ UNCHANGED <<concurrency, models, model_text, api_key, years,
                   runs_per_setting, warmup, phase,
                   wfut, records, pbar, artifacts, jsonl, retryVars, adapterVars, promptVars, fnVars>>

\* run_python_code returns an ExecResult or raises (process creation);
\* a result that is ok goes through eval_two_line_stdout at once
SandboxRun(t) ==
    /\ trial[t].pc = "exec"
    /\ \/ \* subprocess.run raised: except handler
          /\ Stage(TRUE)
          /\ trial' = [trial EXCEPT ![t].pc = "write_exc", ![t].rec = HandlerRecord(t)]
       \/ \E kind \in {"timeout", "runtime_error"} :
            /\ Stage(TRUE)
            /\ trial' = [trial EXCEPT ![t].pc = "write", ![t].exec = kind,
                           ![t].rec = TrialRecord(TaskAt(t, runs_per_setting),
                                                  "error", kind)]
       \/ \E ev \in EvalOutcomes :
            /\ Stage(ev # "pass")
            /\ trial' = [trial EXCEPT ![t].pc = "write", ![t].exec = "ok",
                           ![t].ev = ev,
                           ![t].rec = TrialRecord(TaskAt(t, runs_per_setting),
                                                  EvalStatus(ev), EvalErrorType(ev))]
    /\ UNCHANGED <<concurrency, models, model_text, api_key, years,
                   runs_per_setting, warmup, phase,
                   wfut, records, pbar, artifacts, jsonl, retryVars, adapterVars, promptVars, fnVars>>

\* _write_artifacts inside the try: done, then return rec; or it raises and
\* the except handler builds its record
WriteArtifacts(t) ==
    /\ trial[t].pc = "write"
    /\ \/ /\ Stage(FALSE)
          /\ trial' = [trial EXCEPT ![t] = Returned(@.rec)]
          /\ artifacts' = [artifacts EXCEPT ![t] = @ + 1]
       \/ /\ Stage(TRUE)
          /\ trial' = [trial EXCEPT ![t].pc = "write_exc",
                                    ![t].rec = HandlerRecord(t)]
          /\ UNCHANGED artifacts
    /\ UNCHANGED <<concurrency, models, model_text, api_key, years,
                   runs_per_setting, warmup, phase,
                   wfut, records, pbar, jsonl, retryVars, adapterVars, promptVars, fnVars>>

\* _write_artifacts inside the except handler: done, then return rec; or it
\* raises and the exception leaves the body
WriteArtifactsInHandler(t) ==
    /\ trial[t].pc = "write_exc"
    /\ \/ /\ Stage(FALSE)
          /\ trial' = [trial EXCEPT ![t] = Returned(@.rec)]
          /\ artifacts' = [artifacts EXCEPT ![t] = @ + 1]
       \/ /\ Stage(TRUE)
          /\ trial' = [trial EXCEPT ![t] = Raised]
          /\ UNCHANGED artifacts
    /\ UNCHANGED <<concurrency, models, model_text, api_key, years,
                   runs_per_setting, warmup, phase,
                   wfut, records, pbar, jsonl, retryVars, adapterVars, promptVars, fnVars>>

(***************************************************************************)
(* Measured phase (run.py 350-406) and the end of the run (408-412).       *)
(***************************************************************************)
\* the record the pool loop builds for a future whose result() raises
RunnerErrorRecord(t) ==
    TrialRecord(TaskAt(t, runs_per_setting), "error", "runner_error")

\* the body returned: records.append(rec); pbar.update(1)
\* (sequential: rec = _run_measured_trial(...); pool: rec = fut.result())
CollectReturned(t) ==
    /\ phase = "measured"
    /\ trial[t].pc = "returned"
    /\ records' = Append(records, trial[t].rec)
    /\ trial' = [trial EXCEPT ![t] = Collected]
    /\ pbar' = pbar + 1
    /\ UNCHANGED <<concurrency, models, model_text, api_key, years,
                   runs_per_setting, warmup, phase,
                   wfut, artifacts, jsonl, faults, retryVars, adapterVars, promptVars, fnVars>>

\* pool: fut.result() raises, the except clause builds a runner_error record
CollectRaised(t) ==
    /\ phase = "measured"
    /\ concurrency > 1
    /\ trial[t].pc = "raised"
    /\ records' = Append(records, RunnerErrorRecord(t))
    /\ trial' = [trial EXCEPT ![t] = Collected]
    /\ pbar' = pbar + 1
    /\ UNCHANGED <<concurrency, models, model_text, api_key, years,
                   runs_per_setting, warmup, phase,
                   wfut, artifacts, jsonl, faults, retryVars, adapterVars, promptVars, fnVars>>

\* sequential: the exception of the body leaves the for loop and
\* run_benchmark (finally: pbar.close()); append_jsonl is not reached
Propagate(t) ==
    /\ phase = "measured"
    /\ concurrency = 1
    /\ trial[t].pc = "raised"
    /\ phase' = "aborted"
    /\ UNCHANGED <<concurrency, models, model_text, api_key, years,
                   runs_per_setting, warmup, wfut,
                   trial, records, pbar, artifacts, jsonl, faults, retryVars, adapterVars, promptVars, fnVars>>

\* (mutation) the measured phase is left at the first collected future
MeasuredPhaseOver_First == \E t \in Tasks : trial[t].pc = "collected"

\* the sequential loop is exhausted, or the with-block of the pool is left
MeasuredPhaseOver == \A t \in Tasks : trial[t].pc = "collected"

\* (mutation) the file is opened for writing, not for appending
append_jsonl_Truncating(lines, recs) == recs

\* append_jsonl(path, records) (storage.py 10-18): one line per record, in
\* order, after what the file holds
append_jsonl(lines, recs) == lines \o recs

\* the measured phase is left: finally: pbar.close(), then
\* written = append_jsonl(out_jsonl_path, records) and the return
FinishRun ==
    /\ phase = "measured"
    /\ MeasuredPhaseOver
    /\ jsonl' = append_jsonl(jsonl, records)
    /\ phase' = "done"
    /\ UNCHANGED <<concurrency, models, model_text, api_key, years,
                   runs_per_setting, warmup, wfut,
                   trial, records, pbar, artifacts, faults, retryVars, adapterVars, promptVars, fnVars>>

(***************************************************************************)
(* post_with_429_retries (adapters/retry.py).  Durations are in ms.        *)
(***************************************************************************)
\* Retry-After header values of a 429 response: absent, delta-seconds,
\* an HTTP-date (by its distance to now, in seconds), unparseable text, or
\* a digit that is not a decimal digit of ASCII (superscript two, U+00B2)
RetryAfterHeaders ==
    {[kind |-> "absent"], [kind |-> "garbage"], [kind |-> "superscript"]}
    \cup {[kind |-> "digits", n |-> n] : n \in {0, 2, 60}}
    \cup {[kind |-> "date", delta |-> d] : d \in {-5, 3}}

\* A header value is absent or a string of pieces: a blank, the digits 0, 2
\* and 6, superscript two, a letter, and two HTTP-dates, 3 s ahead of now and
\* 5 s behind it.  The text of a header of RetryAfterHeaders:
HeaderText(header) ==
    [present |-> header.kind # "absent",
     text |-> CASE header.kind = "absent" -> <<>>
                [] header.kind = "garbage" -> <<"x">>
                [] header.kind = "superscript" -> <<"U+00B2">>
                [] header.kind = "digits" ->
                     (IF header.n = 60 THEN <<"6", "0">>
                      ELSE IF header.n = 2 THEN <<"2">> ELSE <<"0">>)
                [] header.kind = "date" ->
                     (IF header.delta = 3 THEN <<"date+3">> ELSE <<"date-5">>)]

\* int(v) of a string of the digits 0, 2 and 6
RECURSIVE Decimal(_)
Decimal(v) ==
    IF Len(v) = 0 THEN 0
    ELSE 10 * Decimal(SubSeq(v, 1, Len(v) - 1))
         + (CASE v[Len(v)] = "0" -> 0 [] v[Len(v)] = "2" -> 2 [] v[Len(v)] = "6" -> 6)

\* max(0.0, (dt - now).total_seconds())
SecondsUntil(piece) == IF piece = "date+3" THEN 3 ELSE 0

\* _retry_after_seconds (retry.py 60-79), in seconds: None is <<>>.
\* str.isdigit is true of superscript two, and int() raises ValueError on it,
\* outside the try that guards the date parsing.
retry_after_seconds(value) ==
    LET v == Strip(value.text, {" "})
    IN  IF ~value.present \/ Len(value.text) = 0 THEN CallReturned(<<>>)
        ELSE IF Len(v) > 0 /\ \A i \in 1..Len(v) : v[i] \in {"0", "2", "6", "U+00B2"}
        THEN (IF \E i \in 1..Len(v) : v[i] = "U+00B2"
              THEN CallRaised("ValueError")
              ELSE CallReturned(<<Decimal(v)>>))
        ELSE IF Len(v) = 1 /\ v[1] \in {"date+3", "date-5"}
        THEN CallReturned(<<SecondsUntil(v[1])>>)
        ELSE CallReturned(<<>>)

\* retry_after = _retry_after_seconds(r.headers.get("retry-after")) where it
\* returns: <<>> for None, or <<the time to wait (ms)>>
RetryAfterSeconds(value) ==
    LET done == retry_after_seconds(HeaderText(value))
    IN  IF done.exc # "none" \/ done.res[1] = <<>> THEN <<>>
        ELSE <<done.res[1][1] * 1000>>

Pow2(n) == IF n <= 0 THEN 1 ELSE 2 ^ n

\* (mutation) the exponent counts attempts from zero
DelayMs_AttemptFromZero(value, att) ==
    IF RetryAfterSeconds(value) = <<>>
    THEN Min(max_delay_s, base_delay_s * Pow2(att))
    ELSE Min(max_delay_s, Max(0, RetryAfterSeconds(value)[1]))

\* lines 48-53: the delay before jitter
DelayMs(value, att) ==
    IF RetryAfterSeconds(value) = <<>>
    THEN Min(max_delay_s, base_delay_s * Pow2(att - 1))
    ELSE Min(max_delay_s, Max(0, RetryAfterSeconds(value)[1]))

\* (mutation) jitter up to a quarter of the delay, without the cap of 1 s
JitterChoices_Uncapped(delay) == {0, delay \div 8, delay \div 4}

\* line 56: random.uniform(0.0, min(1.0, 0.25 * retry_after)), by its ends
\* and its middle
JitterChoices(delay) ==
    LET hi == Min(1000, delay \div 4)
    IN  {0, hi \div 2, hi}

\* line 45: the 429 budget is used up
GiveUp(att) == att >= max_attempts

Responses ==
    {[status |-> 200, retry_after |-> [kind |-> "absent"]],
     [status |-> 500, retry_after |-> [kind |-> "absent"]]}
    \cup {[status |-> 429, retry_after |-> h] : h \in RetryAfterHeaders}

\* what the caller gets when client.post, or the loop itself, raises: the
\* exception, no response
PostRaised == [status |-> -1, retry_after |-> [kind |-> "absent"]]

\* (mutation) server errors are retried as well
Retried_ServerErrors(status) == status \in {429, 500}

\* line 41: the only status the loop goes on after
Retried(status) == status = 429

\* one pass of the while loop, up to its return or its sleep
Post ==
    /\ rpc = "post"
    /\ posts' = posts + 1
    /\ \/ \* client.post raises (timeout, connection error)
          /\ rpc' = "done"
          /\ returned' = PostRaised
          /\ UNCHANGED <<r, attempt, retry_after, jitter>>
       \/ \E resp \in Responses :
            /\ r' = resp
            /\ IF ~Retried(resp.status)
               THEN /\ rpc' = "done"
                    /\ returned' = resp
                    /\ UNCHANGED <<attempt, retry_after, jitter>>
               ELSE /\ attempt' = attempt + 1
                    /\ IF GiveUp(attempt + 1)
                       THEN /\ rpc' = "done"
                            /\ returned' = resp
                            /\ UNCHANGED <<retry_after, jitter>>
                       ELSE IF retry_after_seconds(HeaderText(resp.retry_after)).exc
                                 # "none"
                       THEN \* line 48 raises: the exception leaves the loop
                            /\ rpc' = "done"
                            /\ returned' = PostRaised
                            /\ UNCHANGED <<retry_after, jitter>>
                       ELSE /\ rpc' = "sleep"
                            /\ retry_after' = DelayMs(resp.retry_after, attempt + 1)
                            /\ jitter' \in JitterChoices(retry_after')
                            /\ UNCHANGED returned
    /\ UNCHANGED <<max_attempts, base_delay_s, max_delay_s, sleeps, runVars,
                   adapterVars, promptVars, fnVars>>

\* line 57: time.sleep(retry_after + jitter) returns
Sleep ==
    /\ rpc = "sleep"
    /\ sleeps' = sleeps + 1
    /\ rpc' = "post"
    /\ UNCHANGED <<max_attempts, base_delay_s, max_delay_s, attempt, r, posts,
                   retry_after, jitter, returned, runVars, adapterVars, promptVars, fnVars>>

(***************************************************************************)
(* Adapter.complete of the three adapters.                                 *)
(*   openrouter   openrouter.py 19-70: post_with_429_retries               *)
(*   ollama       ollama.py 15-58: one client.post                         *)
(*   azureopenai  azureopenai.py 26-168: _chat_complete_with_429_retries   *)
(***************************************************************************)
Adapters == {"openrouter", "ollama", "azureopenai"}

\* the values complete() needs from the adapter's configuration
Required(a) ==
    CASE a = "openrouter" -> {"api_key"}
      [] a = "ollama" -> {}
      [] a = "azureopenai" -> {"endpoint", "api_key", "api_version", "deployment"}

\* (mutation) only the key is looked at
ConfigError_KeyOnly(a, absent) == a # "ollama" /\ "api_key" \in absent

\* the checks at the top of complete(): a required value is absent
ConfigError(a, absent) == (Required(a) \cap absent) # {}

\* complete() is entered: RuntimeError for an absent value, or on to the request
CheckConfig ==
    /\ rpc = "config"
    /\ IF ConfigError(adapter, unset)
       THEN rpc' = "over" /\ outcome' = "raised"
       ELSE rpc' = "post" /\ UNCHANGED outcome
    /\ UNCHANGED <<max_attempts, base_delay_s, max_delay_s, attempt, r, posts,
                   sleeps, retry_after, jitter, returned, adapter, unset, runVars, promptVars, fnVars>>

\* r.raise_for_status() of httpx
RaisesForStatus(status) == status >= 400 /\ status <= 599

\* the end of the with-block of the httpx adapters: the exception of the
\* request, r.raise_for_status(), data = r.json() (which raises on a body that
\* is not JSON), then the CompletionResult
HttpxFinish ==
    /\ rpc = "done"
    /\ rpc' = "over"
    /\ \/ /\ returned = PostRaised \/ RaisesForStatus(returned.status)
          /\ outcome' = "raised"
       \/ /\ returned # PostRaised /\ ~RaisesForStatus(returned.status)
          /\ outcome' \in {"returned", "raised"}
    /\ UNCHANGED <<max_attempts, base_delay_s, max_delay_s, attempt, r, posts,
                   sleeps, retry_after, jitter, returned, adapter, unset, runVars, promptVars, fnVars>>

\* openrouter.py 50-53
OpenRouterPost == adapter = "openrouter" /\ Post
OpenRouterSleep == adapter = "openrouter" /\ Sleep
OpenRouterFinish == adapter = "openrouter" /\ HttpxFinish

\* ollama.py 40-41: r = client.post(url, json=payload), once
OllamaPost ==
    /\ adapter = "ollama"
    /\ rpc = "post"
    /\ posts' = posts + 1
    /\ rpc' = "done"
    /\ \/ returned' = PostRaised /\ UNCHANGED r
       \/ \E resp \in Responses : r' = resp /\ returned' = resp
    /\ UNCHANGED <<max_attempts, base_delay_s, max_delay_s, attempt, sleeps,
                   retry_after, jitter, adapter, unset, outcome, runVars, promptVars, fnVars>>

\* ollama.py 42-43
OllamaFinish == adapter = "ollama" /\ HttpxFinish

\* _retry_after_seconds_from_error: delta-seconds only
AzureRetryAfterSeconds(value) ==
    IF value.kind = "digits" THEN <<value.n * 1000>> ELSE <<>>

\* _sleep_for_retry, lines 141-146: the delay before jitter
AzureDelayMs(value, att) ==
    IF AzureRetryAfterSeconds(value) = <<>>
    THEN Min(max_delay_s, base_delay_s * Pow2(att - 1))
    ELSE Min(max_delay_s, Max(0, AzureRetryAfterSeconds(value)[1]))

\* azureopenai.py 134
AzureGiveUp(att) == att >= max_attempts

\* one pass of the loop of _chat_complete_with_429_retries: client.complete
\* returns (status 200), or raises HttpResponseError with the status of the
\* response, or raises another exception
AzureComplete ==
    /\ adapter = "azureopenai"
    /\ rpc = "post"
    /\ posts' = posts + 1
    /\ \/ /\ rpc' = "done"
          /\ returned' = PostRaised
          /\ UNCHANGED <<r, attempt, retry_after, jitter>>
       \/ \E resp \in Responses :
            /\ r' = resp
            /\ IF resp.status # 429
               THEN /\ rpc' = "done"
                    /\ returned' = resp
                    /\ UNCHANGED <<attempt, retry_after, jitter>>
               ELSE /\ attempt' = attempt + 1
                    /\ IF AzureGiveUp(attempt + 1)
                       THEN /\ rpc' = "done"
                            /\ returned' = resp
                            /\ UNCHANGED <<retry_after, jitter>>
                       ELSE /\ rpc' = "sleep"
                            /\ retry_after' = AzureDelayMs(resp.retry_after, attempt + 1)
                            /\ jitter' \in JitterChoices(retry_after')
                            /\ UNCHANGED returned
    /\ UNCHANGED <<max_attempts, base_delay_s, max_delay_s, sleeps, adapter,
                   unset, outcome, runVars, promptVars, fnVars>>

\* azureopenai.py 149: time.sleep(retry_after + jitter) returns
AzureSleep ==
    /\ adapter = "azureopenai"
    /\ rpc = "sleep"
    /\ sleeps' = sleeps + 1
    /\ rpc' = "post"
    /\ UNCHANGED <<max_attempts, base_delay_s, max_delay_s, attempt, r, posts,
                   retry_after, jitter, returned, runVars, adapterVars, promptVars, fnVars>>

\* azureopenai.py 59-92: finally client.close(); the exception goes on to the
\* caller, a response becomes a CompletionResult
AzureFinish ==
    /\ adapter = "azureopenai"
    /\ rpc = "done"
    /\ rpc' = "over"
    /\ outcome' = IF returned = PostRaised \/ returned.status # 200
                  THEN "raised" ELSE "returned"
    /\ UNCHANGED <<max_attempts, base_delay_s, max_delay_s, attempt, r, posts,
                   sleeps, retry_after, jitter, returned, adapter, unset, runVars, promptVars, fnVars>>

(***************************************************************************)
(* render_prompt (core/prompts.py) and its callers (run.py 80-119).        *)
(* A text is a list of pieces; a piece is literal text, the years value,   *)
(* the problem statement or the puzzle input.                              *)
(***************************************************************************)
TextPiece == [kind |-> "text", val |-> 0]
YearsPiece(y) == [kind |-> "years", val |-> y]
StatementPiece(st) == [kind |-> "statement", val |-> st]
InputPiece(payload) == [kind |-> "input", val |-> payload]

\* the fields of a template: literal text or a replacement field {name}
Lit == "#text"
Fields == {Lit, "years", "problem_statement", "input_payload", "other"}

RECURSIVE TemplatesOfLen(_)
TemplatesOfLen(n) ==
    IF n = 0 THEN {<<>>}
    ELSE {Append(tpl, f) : tpl \in TemplatesOfLen(n - 1), f \in Fields}

Templates == UNION {TemplatesOfLen(n) : n \in 0..MaxTemplateLen}

\* (mutation) a formatter that leaves unknown fields as they are
MissingFields_Safe(tpl, kwargs) == {}

\* str.format(**kwargs): the replacement fields whose name is no keyword
MissingFields(tpl, kwargs) ==
    {k \in 1..Len(tpl) : tpl[k] # Lit /\ tpl[k] \notin DOMAIN kwargs}

\* str.format(**kwargs): the fields are replaced from left to right, the first
\* one without a keyword raises KeyError(name)
Format(tpl, kwargs) ==
    LET missing == MissingFields(tpl, kwargs)
    IN  IF missing # {}
        THEN [exc |-> "KeyError",
              key |-> tpl[CHOOSE k \in missing : \A j \in missing : k <= j],
              text |-> <<>>]
        ELSE [exc |-> "none", key |-> "",
              text |-> [k \in 1..Len(tpl) |->
                          IF tpl[k] \in DOMAIN kwargs THEN kwargs[tpl[k]]
                          ELSE TextPiece]]

\* (mutation) the puzzle input is among the keywords
PromptKwargs_WithInput(y, st) ==
    [years |-> YearsPiece(y), problem_statement |-> StatementPiece(st),
     input_payload |-> InputPiece(input_payload)]

\* prompts.py 36-39: the keywords given to template.format
PromptKwargs(y, st) ==
    [years |-> YearsPiece(y), problem_statement |-> StatementPiece(st)]

\* prompts.py 22-30: the system text
SystemText(y) == <<TextPiece, YearsPiece(y), TextPiece>>

\* prompts.py 50-52: sha256 of system + "\n\n" + user, by what it hashes
Sha256Of(system, user) == system \o <<TextPiece>> \o user

NotRendered == [exc |-> "unset", system |-> <<>>, user |-> <<>>, sha |-> <<>>]

\* render_prompt(template_path, years_experience, problem_statement) of a
\* readable template: PromptRendered, or ValueError for a missing
\* input_payload, or the KeyError of another missing field
render_prompt(tpl, y, st) ==
    LET user == Format(tpl, PromptKwargs(y, st))
    IN  IF user.exc = "KeyError"
        THEN [NotRendered EXCEPT
                !.exc = IF user.key = "input_payload" THEN "ValueError" ELSE "KeyError"]
        ELSE [exc |-> "none", system |-> SystemText(y), user |-> user.text,
              sha |-> Sha256Of(SystemText(y), user.text)]

\* run.py 81-85 (warmup) and 97-101 (measured): pr = render_prompt(...);
\* an exception leaves the body
RenderPrompt ==
    /\ ppc = "render"
    /\ pr' = render_prompt(template, ptask.y, statement)
    /\ ppc' = IF pr'.exc = "none" THEN "call" ELSE "raised"
    /\ UNCHANGED <<template, statement, input_payload, ptask, sent, runVars,
                   retryVars, adapterVars, fnVars>>

\* run.py 87-94 (warmup) and 112-119 (measured):
\* adapter.complete(model=ms.model, system=pr.system, user=pr.user, ...)
CallComplete ==
    /\ ppc = "call"
    /\ sent' = Append(sent, [system |-> pr.system, user |-> pr.user])
    /\ ppc' = "called"
    /\ UNCHANGED <<template, statement, input_payload, ptask, pr, runVars,
                   retryVars, adapterVars, fnVars>>

(***************************************************************************)
(* Specifications.                                                         *)
(***************************************************************************)
NoResponse == [status |-> 0, retry_after |-> [kind |-> "absent"]]

RetryIdle ==
    /\ max_attempts = 0 /\ base_delay_s = 0 /\ max_delay_s = 0
    /\ attempt = 0 /\ rpc = "idle" /\ r = NoResponse /\ posts = 0
    /\ sleeps = 0 /\ retry_after = 0 /\ jitter = 0 /\ returned = NoResponse

AdapterIdle == adapter = "none" /\ unset = {} /\ outcome = "none"

FnIdle == call = "none" /\ arg = <<>> /\ ret = <<>> /\ fdone = FALSE

PromptIdle ==
    /\ template = <<>> /\ statement = 0 /\ input_payload = 0
    /\ ptask = [phase |-> "none", y |-> 0] /\ ppc = "idle"
    /\ pr = NotRendered /\ sent = <<>>

RunIdle ==
    /\ concurrency = 1 /\ models = <<>> /\ years = <<>>
    /\ model_text = <<>> /\ api_key = TRUE
    /\ runs_per_setting = 0 /\ warmup = 0 /\ phase = "idle"
    /\ wfut = <<>> /\ trial = <<>> /\ records = <<>> /\ pbar = 0
    /\ artifacts = <<>> /\ jsonl = <<>> /\ faults = 0

\* what the JSONL file holds before the run
OldRecord == [model |-> 0, years |-> 0, run_index |-> 0, status |-> "ok",
              error_type |-> None]
OldLines == {<<OldRecord>>}

\* run_benchmark is called: the arguments, the benchmark file and the
\* environment, as given
Init ==
    /\ concurrency \in 0..MaxConcurrency
    /\ \E nm \in 0..MaxModels :
          /\ models = [k \in 1..nm |-> k]
          /\ model_text \in [1..nm -> ModelTexts]
    /\ api_key \in BOOLEAN
    /\ \E ny \in 1..MaxYears : years = [k \in 1..ny |-> k]
    /\ runs_per_setting \in 0..MaxRuns
    /\ warmup \in 0..MaxWarmup
    /\ TotalSteps <= (IF concurrency <= 1 THEN MaxTotalSteps ELSE MaxPoolSteps)
    /\ phase = "startup"
    /\ wfut = [t \in WarmupTasks |-> "pending"]
    /\ trial = [t \in Tasks |-> Pending]
    /\ records = <<>>
    /\ pbar = 0
    /\ artifacts = [t \in Tasks |-> 0]
    /\ jsonl \in OldLines
    /\ faults = 0
    /\ RetryIdle
    /\ AdapterIdle
    /\ PromptIdle
    /\ FnIdle

Next ==
    \/ StartUp
    \/ \E t \in WarmupTasks : StartWarmup(t)
    \/ \E t \in WarmupTasks : WarmupComplete(t)
    \/ \E t \in WarmupTasks : CollectWarmup(t)
    \/ LeaveWarmup
    \/ \E t \in Tasks : StartMeasured(t)
    \/ \E t \in Tasks : ProviderCall(t)
    \/ \E t \in Tasks : SandboxRun(t)
    \/ \E t \in Tasks : WriteArtifacts(t)
    \/ \E t \in Tasks : WriteArtifactsInHandler(t)
    \/ \E t \in Tasks : CollectReturned(t)
    \/ \E t \in Tasks : CollectRaised(t)
    \/ \E t \in Tasks : Propagate(t)
    \/ FinishRun

Spec == Init /\ [][Next]_vars

InitRetry ==
    /\ max_attempts \in 0..MaxAttempts
    /\ base_delay_s \in {500, 1000}
    /\ max_delay_s \in {3000, 30000}
    /\ attempt = 0 /\ rpc = "post" /\ r = NoResponse /\ posts = 0
    /\ sleeps = 0 /\ retry_after = 0 /\ jitter = 0 /\ returned = NoResponse
    /\ AdapterIdle
    /\ PromptIdle
    /\ FnIdle
    /\ RunIdle

NextRetry == Post \/ Sleep

\* the call runs to its end: client.post returns or raises within its
\* timeout, and time.sleep returns
SpecRetry == InitRetry /\ [][NextRetry]_vars /\ WF_vars(NextRetry)

\* the tuning values of the environment, with delays that reach max_delay_s
InitAdapter ==
    /\ adapter \in Adapters
    /\ unset \in {{}} \cup {{v} : v \in Required(adapter)} \cup {Required(adapter)}
    /\ outcome = "none"
    /\ max_attempts \in 0..MaxAttempts
    /\ base_delay_s \in {500, 1000, 2000}
    /\ max_delay_s \in {1500, 30000}
    /\ attempt = 0 /\ rpc = "config" /\ r = NoResponse /\ posts = 0
    /\ sleeps = 0 /\ retry_after = 0 /\ jitter = 0 /\ returned = NoResponse
    /\ PromptIdle
    /\ FnIdle
    /\ RunIdle

NextAdapter ==
    \/ CheckConfig
    \/ OpenRouterPost
    \/ OpenRouterSleep
    \/ OpenRouterFinish
    \/ OllamaPost
    \/ OllamaFinish
    \/ AzureComplete
    \/ AzureSleep
    \/ AzureFinish

\* the call runs to its end: requests return or raise within their timeout,
\* and time.sleep returns
SpecAdapter == InitAdapter /\ [][NextAdapter]_vars /\ WF_vars(NextAdapter)


\* one task of either phase, with the files run_benchmark read (run.py 59-61)
InitPrompt ==
    /\ template \in Templates
    /\ statement \in {1, 2}
    /\ input_payload \in {1, 2}
    /\ ptask \in [phase : {"warmup", "measured"}, y : 1..MaxYears]
    /\ ppc = "render"
    /\ pr = NotRendered
    /\ sent = <<>>
    /\ RunIdle
    /\ RetryIdle
    /\ AdapterIdle
    /\ FnIdle

NextPrompt == RenderPrompt \/ CallComplete

SpecPrompt == InitPrompt /\ [][NextPrompt]_vars /\ WF_vars(NextPrompt)

(***************************************************************************)
(* run_python_code (core/code_exec.py 21-63).  The child process is given  *)
(* by what subprocess.run meets: whether the interpreter could be started, *)
(* whether the child outlived timeout_s, its return code, and whether the  *)
(* bytes it wrote are valid UTF-8 (text=True decodes stdout and stderr).   *)
(***************************************************************************)
\* return codes: 0, an exit status, a kill by signal 9
ChildOutcomes ==
    [spawned : BOOLEAN, timed_out : BOOLEAN, returncode : {0, 1, 3, -9},
     decodable : BOOLEAN]

ExecResult(ok, exit_code, error_type) ==
    [ok |-> ok, exit_code |-> exit_code, error_type |-> error_type]

\* subprocess.run raises OSError when the interpreter cannot be started and
\* TimeoutExpired (caught, line 43) when the child outlives timeout_s; with
\* text=True it decodes what the child wrote once the child has exited, and
\* the UnicodeDecodeError of that is not caught
run_python_code(child) ==
    IF ~child.spawned THEN CallRaised("OSError")
    ELSE IF child.timed_out
    THEN CallReturned(ExecResult(FALSE, 124, "timeout"))
    ELSE IF ~child.decodable THEN CallRaised("UnicodeDecodeError")
    ELSE LET ok == child.returncode = 0
         IN  CallReturned(ExecResult(ok, child.returncode,
                                     IF ok THEN None ELSE "runtime_error"))

\* the pass flags of a TrialRecord, each <<>> (null) or <<flag>>
PassFlags(status, error_type, passed_a, passed_b, passed_all) ==
    [status |-> status, error_type |-> error_type, passed_a |-> passed_a,
     passed_b |-> passed_b, passed_all |-> passed_all]

\* the record of an execution that failed (run.py 177-199)
ExecFailureRecord(exec_res) ==
    PassFlags("error", exec_res.error_type, <<FALSE>>, <<FALSE>>, <<FALSE>>)

\* exec_res = run_python_code(code=code, stdin_text=..., timeout_s=...), then
\* the record of a result that is not ok
RunPythonCode ==
    /\ call = "run_python_code"
    /\ ~fdone
    /\ LET done == run_python_code(arg)
       IN  ret' = [exc |-> done.exc, res |-> done.res,
                   rec |-> IF done.exc = "none" /\ ~done.res[1].ok
                           THEN <<ExecFailureRecord(done.res[1])>> ELSE <<>>]
    /\ fdone' = TRUE
    /\ UNCHANGED <<call, arg, runVars, retryVars, adapterVars, promptVars>>

(***************************************************************************)
(* eval_two_line_stdout (core/eval.py 17-42).  A stdout is a string over   *)
(* StdoutChars: two line boundaries of str.splitlines, a blank and two     *)
(* printing characters.                                                    *)
(***************************************************************************)
LF == "\n"
CR == "\r"
StdoutChars == {LF, CR, " ", "x", "y"}

\* what str.splitlines splits at, and what str.strip() removes
LineBoundaries == {LF, CR}
Whitespace == {LF, CR, " "}

\* index of the first line boundary of s at or after k, Len(s) + 1 if none
RECURSIVE FirstBoundary(_, _)
FirstBoundary(s, k) ==
    IF k > Len(s) \/ s[k] \in LineBoundaries THEN k ELSE FirstBoundary(s, k + 1)

\* str.splitlines: "\r\n" is one boundary, and a boundary that ends the string
\* opens no further line
RECURSIVE SplitLines(_)
SplitLines(s) ==
    IF Len(s) = 0 THEN <<>>
    ELSE LET k    == FirstBoundary(s, 1)
             stop == IF k < Len(s) /\ s[k] = CR /\ s[k + 1] = LF THEN k + 1 ELSE k
         IN  <<SubSeq(s, 1, k - 1)>> \o SplitLines(SubSeq(s, stop + 1, Len(s)))

\* (mutation) blank lines are kept
NonEmptyLines_KeepBlank(text) ==
    LET sl == SplitLines(text)
    IN  [i \in 1..Len(sl) |-> Strip(sl[i], Whitespace)]

\* [ln.strip() for ln in text.splitlines() if ln.strip() != ""]
NonEmptyLines(text) ==
    LET sl == SplitLines(text)
    IN  SelectSeq([i \in 1..Len(sl) |-> Strip(sl[i], Whitespace)],
                  LAMBDA ln : Len(ln) > 0)

EvalResult(passed_a, passed_b, passed_all, output_a, output_b, error_type, error_message) ==
    [passed_a |-> passed_a, passed_b |-> passed_b, passed_all |-> passed_all,
     output_a |-> output_a, output_b |-> output_b, error_type |-> error_type,
     error_message |-> error_message]

\* (mutation) either part passing is enough
PassedAll_Either(passed_a, passed_b) == passed_a \/ passed_b

\* passed_all = passed_a and passed_b
PassedAll(passed_a, passed_b) == passed_a /\ passed_b

\* optional strings are <<>> (None) or <<s>>; the message
\* "Expected 2 non-empty lines, got n" is kept as <<n>>
eval_two_line_stdout(stdout, expected_a, expected_b) ==
    LET text  == Strip(stdout, {LF})
        lines == NonEmptyLines(text)
    IN  IF Len(lines) < 2
        THEN EvalResult(FALSE, FALSE, FALSE,
                        IF Len(lines) >= 1 THEN <<lines[1]>> ELSE <<>>, <<>>,
                        "output_parse_error", <<Len(lines)>>)
        ELSE LET passed_a == lines[1] = expected_a
                 passed_b == lines[2] = expected_b
             IN  EvalResult(passed_a, passed_b, PassedAll(passed_a, passed_b),
                            <<lines[1]>>, <<lines[2]>>, None, <<>>)

\* the record built from an EvalResult (run.py 227-252)
EvalRecord(ev) ==
    PassFlags(IF ev.passed_all THEN "ok" ELSE "error",
              IF ~ev.passed_all THEN ev.error_type ELSE None,
              <<ev.passed_a>>, <<ev.passed_b>>, <<ev.passed_all>>)

\* the two expected answers of the benchmark (spec.expected)
ExpectedAnswers ==
    {[part_a |-> <<"x">>, part_b |-> <<"y">>],
     [part_a |-> <<"y">>, part_b |-> <<"x", " ", "y">>]}

\* ev = eval_two_line_stdout(stdout=exec_stdout or "", ...), then the record
EvalTwoLineStdout ==
    /\ call = "eval_two_line_stdout"
    /\ ~fdone
    /\ LET ev == eval_two_line_stdout(arg.stdout, arg.expected.part_a,
                                      arg.expected.part_b)
       IN  ret' = [ev |-> ev, rec |-> EvalRecord(ev)]
    /\ fdone' = TRUE
    /\ UNCHANGED <<call, arg, runVars, retryVars, adapterVars, promptVars>>

(***************************************************************************)
(* extract_first_code_block (core/code_extract.py 6-14).  A response text  *)
(* is a string of pieces: the fence, the word python in two letter cases,  *)
(* a newline and other text.  Fences are whole: no backtick stands alone.  *)
(***************************************************************************)
\* the fence: three backticks
Fence == "fence"
TextPieces == {Fence, "python", "PYTHON", LF, "x"}

\* index of the first fence of text at or after k, Len(text) + 1 if none
RECURSIVE FirstFence(_, _)
FirstFence(text, k) ==
    IF k > Len(text) \/ text[k] = Fence THEN k ELSE FirstFence(text, k + 1)

\* _CODE_BLOCK_RE.search(text or ""): the leftmost opening fence that has a
\* fence after it, the optional tag (?:python)? under IGNORECASE, \s* and the
\* lazy (.*?) up to the next fence; then code.strip() + "\n".
\* None is <<>>, a string s is <<s>>.
extract_first_code_block(text) ==
    LET open  == FirstFence(text, 1)
        start == IF open < Len(text) /\ text[open + 1] \in {"python", "PYTHON"}
                 THEN open + 2 ELSE open + 1
        close == FirstFence(text, start)
    IN  IF open > Len(text) \/ close > Len(text) THEN <<>>
        ELSE <<Strip(SubSeq(text, start, close - 1), Whitespace) \o <<LF>>>>

\* code = extract_first_code_block(resp.text)
ExtractFirstCodeBlock ==
    /\ call = "extract_first_code_block"
    /\ ~fdone
    /\ ret' = extract_first_code_block(arg)
    /\ fdone' = TRUE
    /\ UNCHANGED <<call, arg, runVars, retryVars, adapterVars, promptVars>>

(***************************************************************************)
(* _safe_path_component (core/run.py 451-459).  A model key is a string    *)
(* over PathChars: an ASCII letter, the letter U+00E9 (e with acute), the  *)
(* three characters that are kept as they are, and a slash.                *)
(***************************************************************************)
PathChars == {"a", "U+00E9", "-", "_", ".", "/"}

\* ch.isalnum() is true of every letter and digit of Unicode; the empty
\* result becomes the string 'model'
safe_path_component(text) ==
    LET cleaned == [i \in 1..Len(text) |->
                      IF text[i] \in {"a", "U+00E9"} \/ text[i] \in {"-", "_", "."}
                      THEN text[i] ELSE "_"]
        s == Strip(cleaned, {".", "_"})
    IN  IF Len(s) > 0 THEN s ELSE <<"m", "o", "d", "e", "l">>

\* safe_model = _safe_path_component(model_key)   (run.py 430)
SafePathComponent ==
    /\ call = "_safe_path_component"
    /\ ~fdone
    /\ ret' = safe_path_component(arg)
    /\ fdone' = TRUE
    /\ UNCHANGED <<call, arg, runVars, retryVars, adapterVars, promptVars>>

(***************************************************************************)
(* parse_model_spec (core/model_spec.py 22-34) on the texts over           *)
(* SpecPieces.                                                             *)
(***************************************************************************)
SpecPieces == {"OpenRouter", "bogus", ":", " ", "M"}

\* ms = parse_model_spec(model_text)   (run.py 324, 353)
ParseModelSpec ==
    /\ call = "parse_model_spec"
    /\ ~fdone
    /\ ret' = parse_model_spec(arg)
    /\ fdone' = TRUE
    /\ UNCHANGED <<call, arg, runVars, retryVars, adapterVars, promptVars>>

(***************************************************************************)
(* _retry_after_seconds (adapters/retry.py 60-79) on header values: no     *)
(* header, the strings over HeaderPieces, and an HTTP-date with or without *)
(* blanks around it.                                                       *)
(***************************************************************************)
HeaderPieces == {" ", "0", "2", "U+00B2", "x"}

HeaderValues ==
    {[present |-> FALSE, text |-> <<>>]}
    \cup {[present |-> TRUE, text |-> t] : t \in SeqsUpTo(HeaderPieces, MaxHeaderLen)}
    \cup {[present |-> TRUE, text |-> lead \o <<d>> \o trail] :
            lead \in {<<>>, <<" ">>}, d \in {"date+3", "date-5"},
            trail \in {<<>>, <<" ">>}}

\* retry_after = _retry_after_seconds(r.headers.get("retry-after"))
RetryAfterSecondsCall ==
    /\ call = "_retry_after_seconds"
    /\ ~fdone
    /\ ret' = retry_after_seconds(arg)
    /\ fdone' = TRUE
    /\ UNCHANGED <<call, arg, runVars, retryVars, adapterVars, promptVars>>

(***************************************************************************)
(* append_jsonl (core/storage.py 10-18), called by one run after the other *)
(* on the same path.  arg is the file, a sequence of lines; ret keeps the  *)
(* file as the first run found it, the file before the last call, the      *)
(* records and the return value n of the last call, and the number of      *)
(* calls and the sum of their return values.                               *)
(***************************************************************************)
\* written = append_jsonl(out_jsonl_path, records)   (run.py 411);
\* n counts the records as they are written (storage.py 12-18)
AppendJsonl ==
    /\ call = "append_jsonl"
    /\ IF fdone THEN ret.runs < MaxAppendRuns ELSE TRUE
    /\ \E recs \in SeqsUpTo({"r1", "r2"}, 2) :
         /\ arg' = append_jsonl(arg, recs)
         /\ ret' = [start  |-> IF fdone THEN ret.start ELSE arg,
                    before |-> arg,
                    recs   |-> recs,
                    n      |-> Len(recs),
                    runs   |-> IF fdone THEN ret.runs + 1 ELSE 1,
                    total  |-> IF fdone THEN ret.total + Len(recs) ELSE Len(recs)]
    /\ fdone' = TRUE
    /\ UNCHANGED <<call, runVars, retryVars, adapterVars, promptVars>>

(***************************************************************************)
(* The text of a CompletionResult (adapters/openrouter.py 55-70,           *)
(* azureopenai.py 76-92, ollama.py 45-58) on the shapes of a successful    *)
(* response body.  A Python value is its type and, for a string or a       *)
(* list, its elements.  A body is given by its choices (absent, null, an   *)
(* empty list, or a list of one choice), the message of that choice and    *)
(* the content of that message; for Ollama the content is the value of     *)
(* the response key.                                                       *)
(***************************************************************************)
PyValue(type, val) == [type |-> type, val |-> val]

\* bool(v): None, the empty string and the empty list are false
Truthy(v) == v.type # "NoneType" /\ Len(v.val) > 0

\* the value a key of the body holds
ContentValue(kind) ==
    CASE kind = "null" -> PyValue("NoneType", <<>>)
      [] kind = "empty" -> PyValue("str", <<>>)
      [] kind = "string" -> PyValue("str", <<"h", "i">>)
      [] kind = "blocks" -> PyValue("list", <<"block">>)

Bodies ==
    [choices : {"absent", "null", "empty"}, message : {"absent"}, content : {"absent"}]
    \cup [choices : {"one"}, message : {"absent", "null"}, content : {"absent"}]
    \cup [choices : {"one"}, message : {"object"},
          content : {"absent", "null", "empty", "string", "blocks"}]

\* text = (data.get("choices") or [{}])[0].get("message", {}).get("content", "")
\* and CompletionResult(text=text or "", ...)
openrouter_text(body) ==
    LET message == IF body.choices = "one" THEN body.message ELSE "absent"
        content == IF message = "object" /\ body.content # "absent"
                   THEN ContentValue(body.content)
                   ELSE PyValue("str", <<>>)
    IN  IF message = "null" THEN CallRaised("AttributeError")
        ELSE IF Truthy(content) THEN CallReturned(content)
        ELSE CallReturned(PyValue("str", <<>>))

\* text = ""; try: if resp.choices and resp.choices[0].message and
\* resp.choices[0].message.content: text = that content; except: text = ""
azure_text(body) ==
    IF /\ body.choices = "one"
       /\ body.message = "object"
       /\ body.content # "absent"
       /\ Truthy(ContentValue(body.content))
    THEN CallReturned(ContentValue(body.content))
    ELSE CallReturned(PyValue("str", <<>>))

\* text = str(data.get("response", "") or ""): str() of a list is its repr
ollama_text(body) ==
    LET response == IF body.content = "absent" THEN PyValue("str", <<>>)
                    ELSE ContentValue(body.content)
        value    == IF Truthy(response) THEN response ELSE PyValue("str", <<>>)
    IN  CallReturned(IF value.type = "str" THEN value
                     ELSE PyValue("str", <<"[">> \o value.val \o <<"]">>))

\* the text extraction of adapter.complete, after r.json() returned the body
ExtractText ==
    /\ call = "complete.text"
    /\ ~fdone
    /\ ret' = CASE arg.adapter = "openrouter" -> openrouter_text(arg.body)
               [] arg.adapter = "azureopenai" -> azure_text(arg.body)
               [] arg.adapter = "ollama" -> ollama_text(arg.body)
    /\ fdone' = TRUE
    /\ UNCHANGED <<call, arg, runVars, retryVars, adapterVars, promptVars>>

(***************************************************************************)
(* The error_message of a TrialRecord, at each place that builds one       *)
(* (core/run.py 138, 190, 229, 289, 390).  text is what the message is     *)
(* cut from: the stderr of the child, or str(e) of the exception.          *)
(***************************************************************************)
\* the slice bound of run.py 190, 289, 390
MessageLimit == 800

\* the string of n characters ch
Chars(n, ch) == [i \in 1..n |-> ch]

\* blanks, then text of some length about the limit, then newlines
MessageTexts ==
    {Chars(lead, " ") \o Chars(body, "x") \o Chars(trail, LF) :
        lead \in {0, 2},
        body \in {0, 1, MessageLimit - 1, MessageLimit, MessageLimit + 1,
                  2 * MessageLimit},
        trail \in {0, 1}}

\* (mutation) the text is stored whole
Truncate_Whole(s, n) == s

\* s[:n]
Truncate(s, n) == SubSeq(s, 1, Min(Len(s), n))

\* the error_message of the record built at a site, <<>> for None
error_message(site, text) ==
    CASE site = "parse_error" ->
           <<<<"N", "o", " ", "f", "e", "n", "c", "e", "d", " ", "c", "o", "d", "e", " ", "b", "l", "o", "c", "k", " ", "f", "o", "u", "n", "d">>>>
      [] site \in {"timeout", "runtime_error"} ->
           LET m == Truncate(Strip(text, Whitespace), MessageLimit)
           IN  IF Len(m) > 0 THEN <<m>> ELSE <<>>
      [] site = "output_parse_error" ->
           <<<<"E", "x", "p", "e", "c", "t", "e", "d", " ", "2", " ", "n", "o", "n", "-", "e", "m", "p", "t", "y", " ", "l", "i", "n", "e", "s", ",", " ", "g", "o", "t", " ">>
             \o (IF Len(Strip(text, Whitespace)) = 0 THEN <<"0">> ELSE <<"1">>)>>
      [] site = "mismatch" -> <<>>
      [] site \in {"provider_error", "runner_error"} ->
           <<Truncate(text, MessageLimit)>>

\* rec = TrialRecord(..., error_message=..., ...)
ErrorMessage ==
    /\ call = "error_message"
    /\ ~fdone
    /\ ret' = error_message(arg.site, arg.text)
    /\ fdone' = TRUE
    /\ UNCHANGED <<call, arg, runVars, retryVars, adapterVars, promptVars>>

(***************************************************************************)
(* The artifact directories of the measured tasks of one run (core/run.py  *)
(* 351-356, 430-431).  The models are of one provider; a model name is a   *)
(* non-empty string over KeyChars.                                         *)
(***************************************************************************)
KeyChars == {"a", "/", "_"}

\* f"{self.provider}:{self.model}" (model_spec.py 11-19); the provider name
\* is a word of ASCII letters, written as the letter a
model_key(model) == <<"a", ":">> \o model

\* tasks.append((ms, y, i)) in the loops over models, years and
\* range(runs_per_setting)
MeasuredTasks(ms, ys, n) ==
    [k \in 1..(Len(ms) * Len(ys) * n) |->
        [ms |-> ms[((k - 1) \div (n * Len(ys))) + 1],
         y  |-> ys[(((k - 1) \div n) % Len(ys)) + 1],
         i  |-> (k - 1) % n]]

\* out_dir = output_root / provider / safe_model / f"years_{years}" /
\*           f"run_{run_index:03d}"
out_dir(task) ==
    [provider |-> "openrouter",
     safe_model |-> safe_path_component(model_key(task.ms)),
     years |-> task.y,
     run |-> task.i]

\* the directory each measured task of the run writes its artifacts to
OutDirs ==
    /\ call = "out_dir"
    /\ ~fdone
    /\ LET tasks == MeasuredTasks(arg.models, arg.years, arg.runs_per_setting)
       IN  ret' = [k \in 1..Len(tasks) |-> out_dir(tasks[k])]
    /\ fdone' = TRUE
    /\ UNCHANGED <<call, arg, runVars, retryVars, adapterVars, promptVars>>

(***************************************************************************)
(* One call of one function, on each of its inputs.                        *)
(***************************************************************************)
InitCalls ==
    /\ \/ call = "run_python_code" /\ arg \in ChildOutcomes
       \/ /\ call = "extract_first_code_block"
          /\ arg \in SeqsUpTo(TextPieces, MaxTextLen)
       \/ /\ call = "_safe_path_component"
          /\ arg \in SeqsUpTo(PathChars, MaxPathLen)
       \/ /\ call = "parse_model_spec"
          /\ arg \in SeqsUpTo(SpecPieces, MaxSpecLen)
       \/ /\ call = "_retry_after_seconds"
          /\ arg \in HeaderValues
       \/ /\ call = "append_jsonl"
          /\ arg \in {<<>>, <<"old">>}
       \/ /\ call = "eval_two_line_stdout"
          /\ arg \in [stdout : SeqsUpTo(StdoutChars, MaxStdoutLen),
                      expected : ExpectedAnswers]
       \/ /\ call = "error_message"
          /\ arg \in [site : {"parse_error", "timeout", "runtime_error",
                              "output_parse_error", "mismatch",
                              "provider_error", "runner_error"},
                      text : MessageTexts]
       \/ /\ call = "out_dir"
          /\ arg \in [models : SeqsUpTo(SeqsUpTo(KeyChars, MaxKeyLen) \ {<<>>}, 2)
                                   \ {<<>>},
                      years : SeqsUpTo({1, 2}, MaxYears) \ {<<>>},
                      runs_per_setting : {1, 2}]
       \/ /\ call = "complete.text"
          /\ arg \in [adapter : Adapters, body : Bodies]
    /\ ret = <<>>
    /\ fdone = FALSE
    /\ RunIdle
    /\ RetryIdle
    /\ AdapterIdle
    /\ PromptIdle

NextCalls ==
    \/ RunPythonCode
    \/ EvalTwoLineStdout
    \/ ExtractFirstCodeBlock
    \/ SafePathComponent
    \/ ParseModelSpec
    \/ RetryAfterSecondsCall
    \/ AppendJsonl
    \/ ExtractText
    \/ ErrorMessage
    \/ OutDirs

SpecCalls == InitCalls /\ [][NextCalls]_vars

(***************************************************************************)
(* Properties.                                                             *)
(***************************************************************************)
\* run_benchmark is over: it returned, or an exception left it
RunEnded == phase \in {"done", "aborted"}

\* the record belongs to measured task t
RecordOf(rec, t) ==
    LET task == TaskAt(t, runs_per_setting)
    IN  rec.model = task.ms /\ rec.years = task.y /\ rec.run_index = task.i

\* positions of the records list that hold a record of task t
RecordsFor(t) == {k \in 1..Len(records) : RecordOf(records[k], t)}

\* the lines this run added to the JSONL file
LinesWritten == SelectSeq(jsonl, LAMBDA line : line # OldRecord)

\* C1: when run_benchmark is over, every measured task has exactly one
\* record, whichever stage of it failed, and the records list and the lines
\* added to the JSONL both hold |models| x |years| x runs_per_setting records.
C1_OneRecordPerTask ==
    /\ \A t \in Tasks : Cardinality(RecordsFor(t)) <= 1
    /\ RunEnded =>
         /\ \A t \in Tasks : Cardinality(RecordsFor(t)) = 1
         /\ Len(records) = Len(models) * Len(years) * runs_per_setting
         /\ LinesWritten = records

\* C2: a failure inside one measured task (an exception at any point of its
\* body) never aborts the phase: when the run is over every other task has
\* been executed and its record collected and written.
C2_FailureNeverStopsOthers ==
    \A t \in Tasks :
        (trial[t].pc = "raised" /\ RunEnded) =>
            \A u \in Tasks \ {t} :
                /\ trial[u].pc = "collected"
                /\ \E k \in 1..Len(LinesWritten) : RecordOf(LinesWritten[k], u)

\* the stage of the body that failed first, from its locals
FirstFailure(l) ==
    CASE ~l.pr -> "render"
      [] l.pr /\ ~l.resp -> "complete"
      [] l.resp /\ ~l.code -> "extract"
      [] l.code /\ l.exec = None -> "sandbox_raise"
      [] l.exec \in {"timeout", "runtime_error"} -> l.exec
      [] l.exec = "ok" /\ l.ev = "short" -> "evaluate"
      [] OTHER -> "none"

\* the error_kind the taxonomy gives to a first failure
KindOfFailure(stage) ==
    CASE stage = "complete" -> "provider_error"
      [] stage = "extract" -> "parse_error"
      [] stage = "timeout" -> "timeout"
      [] stage = "runtime_error" -> "runtime_error"
      [] stage = "evaluate" -> "output_parse_error"
      [] OTHER -> None

\* C3: a body that ends after a short-circuit (provider call raised, no code
\* block, sandbox timeout, non-zero exit, fewer than two output lines) returns
\* a record with status "error" and the error_kind of the first stage that
\* failed.
C3_KindOfFirstFailure ==
    [][\A t \in Tasks :
          (/\ Executing(trial[t].pc)
           /\ Finished(trial'[t].pc)
           /\ KindOfFailure(FirstFailure(trial[t])) # None) =>
              /\ trial'[t].pc = "returned"
              /\ trial'[t].rec.status = "error"
              /\ trial'[t].rec.error_type = KindOfFailure(FirstFailure(trial[t]))]_vars

\* position of x in a list without repetitions
Pos(seq, x) == CHOOSE k \in 1..Len(seq) : seq[k] = x

\* submission order of two records: models in configured order, then years in
\* configured order, then run_index ascending
SubmittedBefore(a, b) ==
    \/ Pos(models, a.model) < Pos(models, b.model)
    \/ /\ a.model = b.model
       /\ \/ Pos(years, a.years) < Pos(years, b.years)
          \/ a.years = b.years /\ a.run_index < b.run_index

\* C4: with concurrency == 1 at most one task body executes at a time, a task
\* starts only after the previous one of its phase is over and collected, and
\* the records (and the lines written at the end) are in submission order.
C4_SequentialOrder ==
    concurrency = 1 =>
        /\ Running <= 1
        /\ \A t \in Tasks : \A u \in 1..(t - 1) :
              trial[t].pc # "pending" => trial[u].pc = "collected"
        /\ \A t \in WarmupTasks : \A u \in 1..(t - 1) :
              wfut[t] # "pending" => WarmupCollected(wfut[u])
        /\ \A k \in 1..Len(records) : RecordOf(records[k], k)
        /\ \A j, k \in 1..Len(records) :
              j < k => SubmittedBefore(records[j], records[k])
        /\ phase = "done" =>
              /\ LinesWritten = records
              /\ Len(records) = Cardinality(Tasks)

C4_Witness ==
    /\ concurrency = 1 /\ phase = "done"
    /\ Len(models) = 2 /\ Len(years) = 2
    /\ Len(LinesWritten) = 4

\* C5: with concurrency > 1 the measured phase is left only when every
\* submitted future is over and collected, with exactly one record per task in
\* the records list; no line is added to the JSONL before that, and the lines
\* are added when no task body is executing.
C5_PoolBarrier ==
    concurrency > 1 =>
        /\ phase = "done" =>
              /\ \A t \in Tasks : trial[t].pc = "collected"
              /\ \A t \in Tasks : Cardinality(RecordsFor(t)) = 1
              /\ Len(records) = Cardinality(Tasks)
              /\ Running = 0
        /\ phase # "done" => LinesWritten = <<>>
        /\ phase = "done" => LinesWritten = records

\* a pool run that is over, whose first collected record is not the first
\* submitted task's
C5_Witness ==
    /\ concurrency > 1 /\ phase = "done"
    /\ Len(records) >= 2
    /\ ~RecordOf(records[1], 1)

\* C6: the number of task bodies executing at the same time never exceeds
\* the configured concurrency, in either phase.
C6_BoundedPool == Running <= concurrency

\* the pool is full while a call is still queued
C6_Witness ==
    /\ concurrency = 2
    /\ Cardinality(RunningMeasured) = 2
    /\ \E t \in Tasks : trial[t].pc = "pending"

\* C7: after a warmup call raised, the run is not aborted and the measured
\* phase runs all of its tasks.
C7_WarmupFailureHarmless ==
    (\E w \in WarmupTasks : wfut[w] = "swallowed") =>
        /\ phase # "aborted"
        /\ RunEnded => \A t \in Tasks : trial[t].pc = "collected"

\* C8: as long as no measured task has started, nothing is recorded: the
\* records list is empty, no artifact has been written, the JSONL has no new
\* line; the progress counter counts the warmup calls that are over.
C8_WarmupLeavesNoTrace ==
    (\A t \in Tasks : trial[t].pc = "pending") =>
        /\ records = <<>>
        /\ \A t \in Tasks : artifacts[t] = 0
        /\ LinesWritten = <<>>
        /\ pbar = Cardinality({w \in WarmupTasks : WarmupCollected(wfut[w])})

\* the warmup phase is over with one call swallowed and one discarded
C8_Witness ==
    /\ phase = "measured"
    /\ \A t \in Tasks : trial[t].pc = "pending"
    /\ Tasks # {}
    /\ \E w \in WarmupTasks : wfut[w] = "swallowed"
    /\ \E w \in WarmupTasks : wfut[w] = "discarded"

\* C9: no measured trial starts before every warmup call has returned or
\* raised.
C9_WarmupBeforeMeasured ==
    \A t \in Tasks :
        trial[t].pc # "pending" =>
            \A w \in WarmupTasks : wfut[w] \notin {"pending", "complete"}

\* a measured body executes in a pool run that had several warmup calls
C9_Witness ==
    /\ concurrency > 1
    /\ Cardinality(WarmupTasks) >= 2
    /\ \E t \in Tasks : trial[t].pc = "exec"

\* the call is over and every request of it was answered 429
AllAnswered429 == rpc = "done" /\ posts > 0 /\ attempt = posts

C10_Budget ==
    max_attempts >= 1 =>
        /\ posts <= max_attempts
        /\ sleeps <= max_attempts - 1
        /\ attempt >= posts - 1
        /\ rpc # "done" => attempt = posts /\ (posts > 0 => r.status = 429)
        /\ AllAnswered429 =>
              /\ posts = max_attempts
              /\ sleeps = max_attempts - 1
              /\ returned = r
              /\ returned.status = 429

CallOver == rpc = "over"

\* the answer that ended the requests is an HTTP error that is not a 429: an
\* error status, or a request that raised
EndedByError ==
    \/ returned = PostRaised
    \/ returned.status >= 400 /\ returned.status # 429

C11_Ends ==
    /\ (rpc \notin {"done", "over"}) => (r.status \in {0, 429} /\ returned = NoResponse)
    /\ (CallOver /\ posts > 0 /\ EndedByError) => outcome = "raised"

C11_NothingFollows ==
    (r.status \notin {0, 429} \/ returned # NoResponse) =>
        (posts' = posts /\ sleeps' = sleeps)

\* C11: a response whose status is not 429, or a request that raised, ends the
\* retry loop: no request and no sleep follows it in the same complete() call,
\* however many 429 responses came before; for an error the adapter raises.
C11_Non429EndsLoop ==
    /\ []C11_Ends
    /\ [][C11_NothingFollows]_vars
    /\ (posts > 0 /\ EndedByError) ~> (outcome = "raised")

\* a 500 after two 429 responses: three requests, two sleeps, then the raise
C11_Witness ==
    /\ CallOver /\ outcome = "raised"
    /\ r.status = 500 /\ returned = r
    /\ attempt = 2 /\ posts = 3 /\ sleeps = 2

\* C12: every adapter variant follows post_with_429_retries: a call that ends
\* on a 429 response has issued max_attempts requests (one if max_attempts is
\* below one), and the delay before jitter of every sleep is the one
\* post_with_429_retries computes from the response's Retry-After header
\* (delta-seconds or HTTP-date) and the number of 429 responses so far.
C12_SharedRetryPolicy ==
    /\ (rpc \in {"done", "over"} /\ returned # PostRaised /\ returned.status = 429) =>
          posts = Max(1, max_attempts)
    /\ rpc = "sleep" =>
          retry_after =
            (IF r.retry_after.kind = "digits"
               THEN Min(max_delay_s, r.retry_after.n * 1000)
             ELSE IF r.retry_after.kind = "date"
               THEN Min(max_delay_s, Max(0, r.retry_after.delta * 1000))
             ELSE Min(max_delay_s, base_delay_s * 2 ^ (posts - 1)))

\* C13: when the 429 response carries a parseable Retry-After of s seconds, the
\* sleep before the next request lasts at least s, whatever max_delay is.
C13_RetryAfterHonoured ==
    (rpc = "sleep" /\ r.retry_after.kind \in {"digits", "date"}) =>
        retry_after + jitter >=
            (IF r.retry_after.kind = "digits"
             THEN r.retry_after.n * 1000
             ELSE Max(0, r.retry_after.delta * 1000))

\* the Retry-After header gives no delay
Unusable(header) == header.kind \in {"absent", "garbage"}

C14_Delay ==
    (rpc = "sleep" /\ Unusable(r.retry_after)) =>
        /\ retry_after = Min(max_delay_s, base_delay_s * 2 ^ (attempt - 1))
        /\ retry_after <= max_delay_s
        /\ attempt = 1 => retry_after = Min(max_delay_s, base_delay_s)
        /\ (attempt = 1 /\ base_delay_s <= max_delay_s) => retry_after = base_delay_s

C14_NonDecreasing ==
    (/\ rpc = "post" /\ rpc' = "sleep" /\ sleeps >= 1
     /\ Unusable(r.retry_after) /\ Unusable(r'.retry_after)) =>
        retry_after' >= retry_after

\* C14: without a usable Retry-After the delay before jitter of retry k is
\* min(max_delay, base_delay * 2^(k-1)): the first retry waits base_delay (cut
\* to max_delay), the delays never decrease from one retry to the next and
\* never exceed max_delay.
C14_ExponentialBackoff == []C14_Delay /\ [][C14_NonDecreasing]_vars

\* the second retry, with the doubled delay cut to max_delay
C14_Witness ==
    /\ rpc = "sleep" /\ Unusable(r.retry_after)
    /\ attempt = 2 /\ sleeps = 1
    /\ retry_after = max_delay_s /\ base_delay_s * 2 > max_delay_s
    /\ base_delay_s < max_delay_s

\* C15 as stated: the jitter of a sleep with delay d lies in [0, 0.25 * d] and
\* every value of that interval, its upper end included, can be drawn.
C15_JitterWholeInterval ==
    rpc = "sleep" =>
        /\ jitter >= 0 /\ 4 * jitter <= retry_after
        /\ {0, retry_after \div 4} \subseteq JitterChoices(retry_after)

\* C15 (amended): the jitter of a sleep with delay d lies in
\* [0, min(1 s, 0.25 * d)], and both ends of that interval can be drawn.
C15_JitterCapped ==
    rpc = "sleep" =>
        /\ jitter >= 0
        /\ jitter <= Min(1000, retry_after \div 4)
        /\ retry_after + jitter <= retry_after + retry_after \div 4
        /\ {0, Min(1000, retry_after \div 4)} \subseteq JitterChoices(retry_after)

\* a delay of max_delay = 30 s with the largest jitter, one second
C15_Witness ==
    /\ rpc = "sleep"
    /\ retry_after = 30000 /\ max_delay_s = 30000
    /\ jitter = 1000

\* C16: when a required value of the adapter's configuration is absent,
\* complete() raises without a request and without a sleep.
C16_FailFast ==
    unset # {} =>
        /\ posts = 0 /\ sleeps = 0
        /\ rpc \in {"config", "over"}
        /\ CallOver => outcome = "raised"

\* azureopenai without a deployment: raised, nothing was requested
C16_Witness ==
    /\ adapter = "azureopenai" /\ unset = {"deployment"}
    /\ CallOver /\ outcome = "raised"
    /\ posts = 0 /\ sleeps = 0

\* no task of either phase has started and nothing was recorded or written
NothingRan ==
    /\ \A w \in WarmupTasks : wfut[w] = "pending"
    /\ \A t \in Tasks : trial[t].pc = "pending" /\ artifacts[t] = 0
    /\ records = <<>>
    /\ LinesWritten = <<>>

\* C17: when the key of a configured model's provider is absent, run_benchmark
\* stops at start-up: no warmup or measured task runs and no record is
\* produced or written.
C17_MissingKeyIsFatal ==
    (~api_key /\ models # <<>>) =>
        /\ phase # "done"
        /\ NothingRan

\* the entry is a well-formed 'provider:model': before its first colon one
\* word, a known provider in some letter case, and after it a word
WellFormed(text) ==
    \E i \in 1..Len(text) :
        /\ text[i] = ":"
        /\ \A j \in 1..(i - 1) : text[j] # ":"
        /\ \E j \in 1..(i - 1) :
              /\ text[j] \in {"openrouter", "OpenRouter"}
              /\ \A k \in (1..(i - 1)) \ {j} : text[k] = " "
        /\ \E j \in (i + 1)..Len(text) : text[j] # " "

\* the arguments do not pass start-up validation
InvalidArguments ==
    \/ concurrency < 1
    \/ models = <<>>
    \/ \E k \in DOMAIN model_text : ~WellFormed(model_text[k])

\* C18: with concurrency < 1, an empty model list or a malformed entry anywhere
\* in the list, run_benchmark raises before any provider call of either phase
\* and before any record or artifact is written.
C18_ValidationBeforeTasks ==
    InvalidArguments =>
        /\ phase \in {"startup", "rejected"}
        /\ NothingRan
        /\ pbar = 0

\* rejected for its second entry, the first being well-formed, with tasks of
\* both phases configured
C18_Witness ==
    /\ phase = "rejected"
    /\ concurrency >= 1
    /\ Len(models) = 2
    /\ WellFormed(model_text[1]) /\ ~WellFormed(model_text[2])
    /\ WarmupTasks # {} /\ Tasks # {}

\* every text passed to adapter.complete so far
SentTexts == {sent[k].system : k \in 1..Len(sent)} \cup {sent[k].user : k \in 1..Len(sent)}

\* the user text the template gives for a years value and a statement
UserTextOf(tpl, y, st) ==
    [k \in 1..Len(tpl) |->
        CASE tpl[k] = "years" -> YearsPiece(y)
          [] tpl[k] = "problem_statement" -> StatementPiece(st)
          [] OTHER -> TextPiece]

\* C19: no text passed to adapter.complete, in a warmup or a measured task,
\* holds the puzzle input: the system text is made of the years value alone,
\* the user text of the template, the years value and the problem statement,
\* and rendered_sha256 of these two texts.
C19_InputNeverSent ==
    /\ \A text \in SentTexts : \A k \in 1..Len(text) : text[k].kind # "input"
    /\ \A k \in 1..Len(sent) :
          /\ sent[k].system = <<TextPiece, YearsPiece(ptask.y), TextPiece>>
          /\ sent[k].user = UserTextOf(template, ptask.y, statement)
    /\ pr.exc = "none" =>
          /\ \A k \in 1..Len(pr.sha) : pr.sha[k].kind # "input"
          /\ pr.sha = pr.system \o <<TextPiece>> \o pr.user

\* a prompt with the years value and the statement was sent
C19_Witness ==
    /\ ppc = "called" /\ Len(sent) = 1
    /\ \E j, k \in 1..Len(template) :
          template[j] = "years" /\ template[k] = "problem_statement"
    /\ input_payload = 2

\* the template has a replacement field for the puzzle input
ReferencesInput == \E k \in 1..Len(template) : template[k] = "input_payload"

UnknownFieldFirst ==
    \E k \in 1..Len(template) :
        /\ template[k] = "other"
        /\ \A j \in 1..(k - 1) : template[j] # "input_payload"

C20_Raises ==
    ReferencesInput =>
        /\ sent = <<>>
        /\ ppc \in {"render", "raised"}
        /\ ppc = "raised" =>
              pr.exc = (IF UnknownFieldFirst THEN "KeyError" ELSE "ValueError")

Writing(t) == trial[t].pc \in {"write", "write_exc"}

C21_WritesSerialized ==
    Cardinality({t \in Tasks : Writing(t)}) <= 1

(***************************************************************************)
(* C22  The progress counter is incremented exactly once per task (warmup  *)
(*      or measured, success or failure), and a run that completes both    *)
(*      phases ends with it at |models| x |years| x (max(0, warmup) +      *)
(*      runs_per_setting), for every pool size.  (Every pbar.update(1) is  *)
(*      made by the thread of run_benchmark, so no two threads increment   *)
(*      at once.)  A sequential measured task whose body raises is never   *)
(*      counted: its exception leaves the loop before pbar.update(1).      *)
(***************************************************************************)
\* tasks whose call, or future, has come to its end by the end of the run
TasksOver ==
    Cardinality({t \in WarmupTasks : WarmupCollected(wfut[t])})
    + Cardinality({t \in Tasks : trial[t].pc \in {"collected", "raised"}})

C22_ProgressCounter ==
    /\ pbar <= TotalSteps
    /\ RunEnded => pbar = TasksOver
    /\ phase = "done" => pbar = TotalSteps

(***************************************************************************)
(* C23  Every ExecResult returned by run_python_code satisfies: ok is true *)
(*      iff the child exited with code 0 within the timeout; error_type is *)
(*      null iff ok; a timeout yields ok = false, error_type 'timeout' and *)
(*      exit_code 124; a non-zero exit without timeout yields ok = false   *)
(*      and error_type 'runtime_error'; and no outcome of a child that was *)
(*      started (timeout or non-zero exit) raises to the caller.           *)
(***************************************************************************)
\* run_python_code was called on a child that could be started, and is over
ExecOver == call = "run_python_code" /\ fdone /\ arg.spawned

C23_ExecResultContract ==
    /\ (ExecOver /\ ret.exc = "none") =>
         LET res == ret.res[1]
         IN  /\ res.ok <=> (~arg.timed_out /\ arg.returncode = 0)
             /\ (res.error_type = None) <=> res.ok
             /\ arg.timed_out =>
                  ~res.ok /\ res.error_type = "timeout" /\ res.exit_code = 124
    /\ (ExecOver /\ arg.timed_out) => ret.exc = "none"
    /\ (ExecOver /\ ~arg.timed_out /\ arg.returncode # 0) =>
         /\ ret.exc = "none"
         /\ ~ret.res[1].ok
         /\ ret.res[1].error_type = "runtime_error"

(***************************************************************************)
(* C24  eval_two_line_stdout returns error_type 'output_parse_error' if    *)
(*      and only if the stdout has fewer than two lines that are non-empty *)
(*      after trimming; then passed_a, passed_b and passed_all are false,  *)
(*      output_b is null and the message reports the number of non-empty   *)
(*      lines that were seen (0 or 1).                                     *)
(***************************************************************************)
\* positions j..i of s lie on one line
SameLine(s, j, i) == \A k \in j..i : s[k] \notin LineBoundaries

\* positions of s where the text of a line starts: a character that is not
\* white space, with nothing but blanks before it on its line
LineStarts(s) ==
    {i \in 1..Len(s) :
        /\ s[i] \notin Whitespace
        /\ \A j \in 1..(i - 1) : SameLine(s, j, i) => s[j] \in Whitespace}

\* the n-th line of s that is not blank, without the blanks around it
TrimmedLine(s, n) ==
    LET first == CHOOSE i \in LineStarts(s) :
                    Cardinality({j \in LineStarts(s) : j < i}) = n - 1
        last  == CHOOSE k \in first..Len(s) :
                    /\ SameLine(s, first, k)
                    /\ s[k] \notin Whitespace
                    /\ \A m \in (k + 1)..Len(s) :
                          SameLine(s, first, m) => s[m] \in Whitespace
    IN  SubSeq(s, first, last)

EvalOver == call = "eval_two_line_stdout" /\ fdone

FlagsAgree(rec) ==
    /\ Len(rec.passed_a) = 1 /\ Len(rec.passed_b) = 1 /\ Len(rec.passed_all) = 1
    /\ rec.passed_all[1] <=> (rec.passed_a[1] /\ rec.passed_b[1])

FencesOf(text) == {i \in 1..Len(text) : text[i] = Fence}

C26_ExtractedBody ==
    (call = "extract_first_code_block" /\ fdone) =>
      LET fences == FencesOf(arg)
      IN  /\ (ret = <<>>) <=> (Cardinality(fences) < 2)
          /\ Cardinality(fences) >= 2 =>
               LET open  == CHOOSE i \in fences : \A j \in fences : i <= j
                   close == CHOOSE i \in fences \ {open} :
                               \A j \in fences \ {open} : i <= j
                   skip  == IF arg[open + 1] \in {"python", "PYTHON"}
                            THEN 1 ELSE 0
                   code  == ret[1]
                   body  == SubSeq(code, 1, Len(code) - 1)
               IN  /\ code[Len(code)] = LF
                   /\ Len(body) > 0 => body[1] # LF /\ body[Len(body)] # LF
                   /\ \E lead, trail \in 0..Len(arg) :
                        /\ open + skip + lead + Len(body) + trail + 1 = close
                        /\ \A k \in 1..lead : arg[open + skip + k] = LF
                        /\ \A k \in 1..trail : arg[close - k] = LF
                        /\ \A k \in 1..Len(body) :
                              body[k] = arg[open + skip + lead + k]

\* the body of task t comes to its end in this step
BodyEnds(t) == Writing(t) /\ Finished(trial'[t].pc)

C26_NullIsParseError ==
    [][\A t \in Tasks :
         BodyEnds(t) =>
           ((trial[t].resp /\ ~trial[t].code)
              <=> (/\ trial'[t].pc = "returned"
                   /\ trial'[t].rec.error_type = "parse_error"))]_vars

(***************************************************************************)
(* C27  For every input string, strings with non-ASCII letters or digits   *)
(*      included, _safe_path_component returns a non-empty string that     *)
(*      holds only characters of [A-Za-z0-9._-] and neither starts nor     *)
(*      ends with '.' or '_'; an input that sanitizes to nothing (such as  *)
(*      '///') yields 'model'.  A letter outside ASCII is kept as it is.   *)
(***************************************************************************)
\* the characters of [A-Za-z0-9._-] that occur in inputs and results
AsciiSafe == {"a", "m", "o", "d", "e", "l", "-", "_", "."}

C27_SafePathComponent ==
    (call = "_safe_path_component" /\ fdone) =>
      /\ Len(ret) > 0
      /\ \A i \in 1..Len(ret) : ret[i] \in AsciiSafe
      /\ ret[1] \notin {".", "_"} /\ ret[Len(ret)] \notin {".", "_"}
      /\ (\A i \in 1..Len(arg) : arg[i] \in {"/", ".", "_"}) =>
           ret = <<"m", "o", "d", "e", "l">>

(***************************************************************************)
(* C28  parse_model_spec raises ValueError for every string without a      *)
(*      colon, with a provider outside {openrouter, ollama, azureopenai}   *)
(*      (compared case-insensitively after trimming) or with an empty      *)
(*      model; otherwise it splits at the first colon only, returns the    *)
(*      provider lower-cased and the model trimmed, with its case and any  *)
(*      further colons preserved, and model_key = model_spec =             *)
(*      '<provider>:<model>'.                                              *)
(***************************************************************************)
\* s is t with blanks added at its two ends
BlanksAround(s, t) ==
    \E lead \in 0..Len(s) :
        /\ lead + Len(t) <= Len(s)
        /\ \A k \in 1..Len(s) :
              IF k > lead /\ k <= lead + Len(t) THEN s[k] = t[k - lead]
              ELSE s[k] = " "

C28_ParseModelSpec ==
    (call = "parse_model_spec" /\ fdone) =>
      LET colons == {i \in 1..Len(arg) : arg[i] = ":"}
      IN  /\ colons = {} => ret = <<>>
          /\ colons # {} =>
               LET first  == CHOOSE i \in colons : \A j \in colons : i <= j
                   before == SubSeq(arg, 1, first - 1)
                   after  == SubSeq(arg, first + 1, Len(arg))
                   known  == \/ BlanksAround(before, <<"OpenRouter">>)
                             \/ BlanksAround(before, <<"openrouter">>)
                   blank  == \A k \in 1..Len(after) : after[k] = " "
               IN  /\ (ret = <<>>) <=> (~known \/ blank)
                   /\ ret # <<>> =>
                        /\ ret[1].provider = <<"openrouter">>
                        /\ Len(ret[1].model) > 0
                        /\ ret[1].model[1] # " "
                        /\ ret[1].model[Len(ret[1].model)] # " "
                        /\ BlanksAround(after, ret[1].model)
                        /\ ret[1].model_spec
                             = <<"openrouter", ":">> \o ret[1].model
                        /\ ret[1].model_key = ret[1].model_spec

\* a provider in capitals with a blank after it, a model with a second colon
C28_Witness ==
    /\ call = "parse_model_spec" /\ fdone
    /\ arg = <<"OpenRouter", " ", ":", "M", ":">>
    /\ ret = <<[provider |-> <<"openrouter">>, model |-> <<"M", ":">>,
                model_spec |-> <<"openrouter", ":", "M", ":">>,
                model_key |-> <<"openrouter", ":", "M", ":">>]>>

(***************************************************************************)
(* C29  _retry_after_seconds returns null for a missing, empty or          *)
(*      unparseable header value; for a string of decimal digits with      *)
(*      optional surrounding whitespace that integer as seconds; for an    *)
(*      HTTP-date the non-negative difference to the current time; and     *)
(*      its result is never negative.  A value such as superscript two,    *)
(*      which is no string of decimal digits, raises ValueError instead.   *)
(***************************************************************************)
\* the header value without the blanks around it
Trimmed(value) == Strip(value.text, {" "})

\* a string of decimal digits
DecimalDigits(v) == Len(v) > 0 /\ \A i \in 1..Len(v) : v[i] \in {"0", "2"}

\* an HTTP-date
HttpDate(v) == Len(v) = 1 /\ v[1] \in {"date+3", "date-5"}

C29_RetryAfterSeconds ==
    (call = "_retry_after_seconds" /\ fdone) =>
      /\ ret.exc = "none"
      /\ LET v      == Trimmed(arg)
             result == ret.res[1]
         IN  /\ (~arg.present \/ Len(arg.text) = 0) => result = <<>>
             /\ (arg.present /\ DecimalDigits(v)) => result = <<Decimal(v)>>
             /\ (arg.present /\ HttpDate(v)) =>
                  result = <<IF v[1] = "date+3" THEN 3 ELSE 0>>
             /\ (arg.present /\ ~DecimalDigits(v) /\ ~HttpDate(v)) => result = <<>>
             /\ Len(result) = 1 => result[1] >= 0

(***************************************************************************)
(* C30  The result store is append-only: append_jsonl leaves every line    *)
(*      already in the file unchanged, adds exactly one line per given     *)
(*      record in the order given, and returns the number of lines added;  *)
(*      over any sequence of runs onto the same path the line count of     *)
(*      the file is the sum of the record counts of the runs (on top of    *)
(*      the lines the first run found).                                    *)
(***************************************************************************)
\* old is the beginning of new
PrefixOf(old, new) ==
    Len(old) <= Len(new) /\ \A k \in 1..Len(old) : new[k] = old[k]

C30_AppendOnly ==
    (call = "append_jsonl" /\ fdone) =>
      /\ PrefixOf(ret.before, arg)
      /\ Len(arg) = Len(ret.before) + Len(ret.recs)
      /\ \A k \in 1..Len(ret.recs) : arg[Len(ret.before) + k] = ret.recs[k]
      /\ ret.n = Len(arg) - Len(ret.before)
      /\ PrefixOf(ret.start, arg)
      /\ Len(arg) = Len(ret.start) + ret.total

\* three runs on a file that held one line: two records, none, one
C30_Witness ==
    /\ call = "append_jsonl" /\ fdone
    /\ ret.runs = 3 /\ ret.start = <<"old">>
    /\ arg = <<"old", "r1", "r2", "r2">>
    /\ ret.before = <<"old", "r1", "r2">> /\ ret.n = 1 /\ ret.total = 3

\* the lines this run added to the JSONL file that hold a record of task t
LinesFor(t) == {k \in 1..Len(LinesWritten) : RecordOf(LinesWritten[k], t)}

\* C31: every record appended to the JSONL is there exactly once and has been
\* written exactly once as the record.json of its trial's artifact directory,
\* whatever its error_kind (runner_error included) and the concurrency.
C31_JsonlAndSidecarOnce ==
    phase = "done" =>
        \A t \in Tasks :
            LinesFor(t) # {} =>
                /\ Cardinality(LinesFor(t)) = 1
                /\ artifacts[t] = 1

\* C32: for every shape of a successful response body (choices missing or
\* empty, message absent or null, content absent, null, a string or a list of
\* content blocks) the text extraction of an adapter returns a string, the
\* empty string when the body holds no text, and never raises.
C32_TextIsAlwaysAString ==
    (call = "complete.text" /\ fdone) =>
        /\ ret.exc = "none"
        /\ ret.res[1].type = "str"
        /\ (arg.body.content \in {"absent", "null", "empty"}) => ret.res[1].val = <<>>

\* the stages of a measured task begin in their order, none a second time:
\* adapter.complete is entered once, after the prompt was rendered; one child
\* process is started, after the provider call, only for an extracted code
\* block; the evaluator runs only on a sandbox result that is ok
StagesInOrder(a, b) ==
    /\ (b.pc = "complete" /\ a.pc # "complete") => (a.pc = "pending" /\ b.pr)
    /\ (b.pc = "exec" /\ a.pc # "exec") => (a.pc = "complete" /\ b.resp /\ b.code)
    /\ (b.exec # None /\ b.exec # a.exec) => (a.pc = "exec" /\ a.exec = None)
    /\ (b.ev # None /\ b.ev # a.ev) => (a.pc = "exec" /\ a.ev = None /\ b.exec = "ok")
    /\ b.pc = "pending" => a.pc = "pending"

\* the order of the stages alone
C33_OrderOnly ==
    [][\A t \in Tasks : StagesInOrder(trial[t], trial'[t])]_vars

\* C33: a measured task goes through render prompt, provider call, code
\* extraction, sandbox execution, evaluation and record in this order, none
\* of them twice, the sandbox only for an extracted code block, the evaluator
\* only for a sandbox result that is ok, and after the first failure the next
\* stage is the record: the body ends only from its record stage.
C33_StagesShortCircuitToRecord ==
    [][\A t \in Tasks :
          /\ StagesInOrder(trial[t], trial'[t])
          /\ (Finished(trial'[t].pc) /\ ~Finished(trial[t].pc)) =>
                trial[t].pc \in {"write", "write_exc"}]_vars

\* C34: the record a body returns has error_kind provider_error if and only
\* if adapter.complete raised in that trial; an exception raised after
\* complete() returned never yields a provider_error record.
C34_ProviderErrorIffCompleteRaised ==
    [][\A t \in Tasks :
          (Executing(trial[t].pc) /\ trial'[t].pc = "returned") =>
              (trial'[t].rec.error_type = "provider_error" <=> ~trial[t].resp)]_vars

\* the error kinds of the taxonomy
ErrorKinds ==
    {"provider_error", "parse_error", "timeout", "runtime_error",
     "output_parse_error", "runner_error"}

\* status, pass flag and error kind of a record agree
Classified(rec) ==
    /\ rec.status \in {"ok", "error"}
    /\ rec.status = "ok" <=> rec.passed_all = <<TRUE>>
    /\ rec.status = "ok" => rec.error_type = None
    /\ rec.status = "error" => rec.error_type \in ErrorKinds

\* C35: in every record status is ok exactly when passed_all is true, a
\* record with status ok has no error_kind, and a record with status error
\* has an error_kind of the taxonomy, also when the program printed two
\* lines that are not the expected answers.
C35_StatusAndErrorKind ==
    /\ EvalOver => Classified(ret.rec)
    /\ (call = "run_python_code" /\ fdone /\ Len(ret.rec) = 1) =>
         Classified(ret.rec[1])

\* a record with a ttlt_ms is built for task t: in the try (the body goes on
\* to _write_artifacts) or by the except handler
BuildsRecord(t) ==
    /\ trial[t].pc \in {"complete", "exec", "write"}
    /\ trial'[t].pc \in {"write", "write_exc"}
    /\ trial'[t].pc # trial[t].pc

\* C36: the ttlt_ms of a record spans the provider call of its trial and
\* nothing else: no later stage (code extraction, sandbox execution,
\* evaluation, artifact writing) lies between its two time stamps, on every
\* path that builds a record with a ttlt_ms.
C36_TtltSpansProviderCall ==
    [][\A t \in Tasks :
          BuildsRecord(t) =>
              TtltStages(trial[t], trial'[t].pc = "write_exc") = {"complete"}]_vars

\* C37: whenever adapter.complete returned a CompletionResult, the record of
\* the trial carries it as it is: raw_usage and usage_derived are the
\* result's and response_text_len is the length of its text, whatever
\* happens in the later stages.
C37_ResultKeptVerbatim ==
    [][\A t \in Tasks :
          (BuildsRecord(t) /\ trial'[t].resp) =>
              ResultFields(trial'[t], trial'[t].pc = "write_exc") =
                  [raw_usage |-> "resp.raw_usage",
                   usage_derived |-> "resp.usage_derived",
                   response_text_len |-> "len(resp.text)"]]_vars

\* C38: the error_message of a record is null or at most 800 characters
\* long, for every error_kind; for a sandbox failure whose stderr is empty or
\* all whitespace it is null.
C38_MessageBounded ==
    (call = "error_message" /\ fdone) =>
        /\ ret = <<>> \/ Len(ret[1]) <= 800
        /\ (/\ arg.site \in {"timeout", "runtime_error"}
            /\ \A i \in 1..Len(arg.text) : arg.text[i] \in {" ", LF}) => ret = <<>>

\* the stderr of a child that timed out, two blanks, 801 characters and a
\* newline, is stripped and cut to 800 characters
C38_Witness ==
    /\ call = "error_message" /\ fdone
    /\ arg.site = "timeout"
    /\ Len(arg.text) = 804
    /\ Len(ret) = 1
    /\ Len(ret[1]) = 800

\* C39: within one run two different measured tasks never have the same
\* artifact directory, whatever the model list and the years list are (model
\* keys that differ only in characters the sanitizer replaces, and repeated
\* entries, included).
C39_DistinctDirectories ==
    (call = "out_dir" /\ fdone) =>
        \A j, k \in 1..Len(ret) : j # k => ret[j] # ret[k]

\* the same for the runs whose model list and years list have no repeated
\* entry
C39_DistinctEntries ==
    (/\ call = "out_dir" /\ fdone
     /\ \A j, k \in 1..Len(arg.models) : j # k => arg.models[j] # arg.models[k]
     /\ \A j, k \in 1..Len(arg.years) : j # k => arg.years[j] # arg.years[k]) =>
        \A j, k \in 1..Len(ret) : j # k => ret[j] # ret[k]
====
